---------------------------- MODULE Spec2Model ----------------------------
(***************************************************************************)
(* A model of the STCI/STI codec of ja2-open-toolset                      *)
(* (src/ja2py/fileformats/Sti.py): the ETRLE scanline encoder, the        *)
(* bit-mask colour codec, the streaming encoder and decoder and the load  *)
(* and save entry points.  Bytes are naturals 0..255, byte strings are    *)
(* sequences of bytes, Python integers are naturals.                      *)
(*                                                                         *)
(* Each part of the codec has its own variables and its own               *)
(* specification; a specification keeps the variables of the other parts  *)
(* at their idle values.                                                   *)
(***************************************************************************)
EXTENDS Naturals, Integers, Sequences, FiniteSets, TLC

VARIABLES
    etrle,      \* one scanline and its ETRLE encoding:
                \*   line  the palette indexes of the line
                \*   enc   the bytes the encoder emitted for the line
                \*   dec   the decompression of enc
                \*   pc    "build" | "encoded"
    colour,     \* one pixel and its ColorSpec:
                \*   spec    <<4 masks, 4 depths, total depth>>
                \*   comps   the components <<r, g, b, a>> given to pack
                \*   valid   what validate_spec did with spec
                \*   packed  what _color_bytes returned for comps
                \*   raw     the raw pixel value given to unpack
                \*   out     the components _color_components returned
                \*   pc      "new" | "valid" | "rejected" | "packed" |
                \*           "packerror" | "unpacked" | "unpackedraw" |
                \*           "rawfast" | "rawerror"
    encoder,    \* one StiImageEncoder and the image it encodes:
                \*   do       "colors" | "indexes" | "etrle"
                \*   spec     the ColorSpec of "colors"
                \*   w, h     the image size; the extents are (0, 0, w, h)
                \*   im       the pixels, row by row
                \*   x, y     self.x, self.y (None or the saved cursor)
                \*   bytes    self.bytes, encoded and not yet returned
                \*   bufsize  the budget of the last step
                \*   buffer   the buffer the last step returned
                \*   errcode  the status the last step returned: 0 more, 1 done
                \*   out      the returned buffers up to the first 'done'
                \*   done     how many steps reported 'done'
                \*   total    the byte count encode_to_pyfd returned, or None
                \*   pc       "init" | "more" | "done" | "driven"
    decoder,    \* one StiImageDecoder and the chunks given to it:
                \*   do        "indexes" | "etrle" | "fill" | "rgb"
                \*   target    the byte count given to init
                \*   pixels    xsize * ysize
                \*   bytes     self.bytes, the bytes still required
                \*   data      self.data, the bytes accumulated
                \*   arrived   every chunk given up to the first done, in order
                \*   chunklen  the length of the last chunk
                \*   consumed  the count the last step returned (-1 with done)
                \*   errcode   the status the last step returned: 0 more, 1 done
                \*   handed    the bytes the last step gave to the decode primitive
                \*   result    what the primitive set as the pixels
                \*   runs      how many times the primitive ran
                \*   pc        "init" | "more" | "done" | "error"
    loader,     \* one file given to a load entry point:
                \*   file     the header fields and the bytes after the header
                \*   entry    "_open" | "load_16bit_sti" | "load_8bit_sti"
                \*   result   what the entry point returned or raised
                \*   pc       "file" | "loaded"
    saver,      \* sub-images saved to a file that is loaded again:
                \*   input    the sub-images with their offsets and tile metadata
                \*   flags    the flags given to _save_etrle_images
                \*   save     "save_8bit_sti" | "_save_etrle_images" |
                \*            "_save_indexes_image"
                \*   written  what the save wrote or raised
                \*   load     "load_8bit_sti" | "_open"
                \*   loaded   what the load returned or raised
                \*   pc       "new" | "saved" | "loaded"
    codec,      \* one header and its encoding:
                \*   layout   the header class
                \*   from     "fields" for a header built from field values,
                \*            "buffer" for one read from a buffer
                \*   fields   the field values of a header built from values
                \*   bytes    the bytes encoded, or the buffer given to from_bytes
                \*   decoded  the fields from_bytes returned
                \*   again    the bytes of the decoded fields
                \*   pc       "fields" | "encoded" | "buffer" | "decoded" |
                \*            "again" | "truncated"
    flagged,    \* one StiHeader whose flags are set and cleared by name:
                \*   header   the header after the calls made so far
                \*   before   the header before the last call
                \*   names    the names whose last call had the value True
                \*   name     the name given to the last call
                \*   value    the value given to the last call
                \*   pc       "new" | "set"
    handler,    \* one call of a save handler of the plugin:
                \*   images   the image given to Image.save and the append_images
                \*   info     encoderinfo: flags, spec and semi_transparent
                \*   entry    "_save_handler" | "_save_all_handler"
                \*   result   what the handler wrote or raised
                \*   pc       "new" | "saved"
    truecolor,  \* one true colour image saved by save_16bit_sti, or one true colour
                \*   file loaded by load_16bit_sti:
                \*   image    the size and the pixels <<r, g, b>> given to the save
                \*   written  what the save wrote
                \*   file     the file given to the load
                \*   loaded   what the load returned
                \*   pc       "image" | "saved" | "file" | "loaded"
    pixel       \* one raw pixel value packed to bytes and read back:
                \*   depth    the total depth of the spec, in bits
                \*   color    the raw pixel value given to the byte packing
                \*   bytes    the bytes the packing of _color_bytes gives
                \*   decoded  the integer the decoder reads from bytes
                \*   pc       "color" | "packed" | "decoded"

vars == <<etrle, colour, encoder, decoder, loader, saver, codec, flagged, handler, truecolor, pixel>>

---------------------------------------------------------------------------
(* Python's integer operators on naturals.                                 *)

Min(a, b) == IF a < b THEN a ELSE b

Max(a, b) == IF a > b THEN a ELSE b

RECURSIVE Pow2(_)
Pow2(k) == IF k = 0 THEN 1 ELSE 2 * Pow2(k - 1)

RECURSIVE BitOr(_, _)
BitOr(a, b) ==
    IF a = 0 THEN b
    ELSE IF b = 0 THEN a
    ELSE Max(a % 2, b % 2) + 2 * BitOr(a \div 2, b \div 2)

\* s[from:] of a Python sequence, with `from` counted from 0
DropFirst(s, k) == SubSeq(s, k + 1, Len(s))

\* s[:k]
TakeFirst(s, k) == SubSeq(s, 1, Min(k, Len(s)))

\* bytes([b]) * k
Repeat(b, k) == [i \in 1..k |-> b]

---------------------------------------------------------------------------
(* ETRLE: StiImageEncoder._encode_etrle, the encoding of one line          *)
(* (Sti.py lines 1249-1281).                                               *)

\* the 7-bit maximum of a run length, `0x7f`
MaxRunLength == 127

\* the control-byte flag of a compressed run, `0x80`
Compressed == 128

\* the least element of a non-empty set of naturals
MinOf(S) == CHOOSE k \in S : \A m \in S : k <= m

\* a plausible slip: the inner loop never breaks, so that the zero run takes
\* the bytes after it as well
ZeroRunEndWhole(line, n) == n

\* the inner `for i in range(2,n)` of the compressed branch: the index
\* (from 0) of the first non-zero byte at or after 2, or n when there is none
\* (line[j] of the code is line[j + 1] here)
ZeroRunEnd(line, n) ==
    LET NonZero == {j \in 2..(n - 1) : line[j + 1] # 0}
    IN  IF NonZero = {} THEN n ELSE MinOf(NonZero)

\* the `for i in range(1,n)` of one cycle of the while loop: the control
\* flag and the run length before the cap.  The loop goes on (`continue`)
\* at every i but one with line[i] = 0 and (line[i-1] = 0 or i+1 = n), where
\* it breaks; without such an i its else clause runs
ScanLoop(line, n) ==
    LET Breaks == {i \in 1..(n - 1) :
                      line[i + 1] = 0 /\ (line[i] = 0 \/ i + 1 = n)}
    IN  IF Breaks = {}
        THEN [control |-> IF n = 1 /\ line[1] = 0 THEN Compressed ELSE 0,
              n |-> n]
        ELSE LET i == MinOf(Breaks)
             IN  IF line[i] # 0
                 THEN \* a lone 0 at the end: `n -= 1`
                      [control |-> 0, n |-> n - 1]
                 ELSE IF i = 1
                 THEN [control |-> Compressed, n |-> ZeroRunEnd(line, n)]
                 ELSE [control |-> 0, n |-> i - 1]

\* a plausible slip: every zero ends the uncompressed run, a lone zero too
ScanRunSplitsLoneZero(line) ==
    LET n == Len(line)
        firstZero == IF \E k \in 1..n : line[k] = 0
                     THEN MinOf({k \in 1..n : line[k] = 0})
                     ELSE n + 1
        firstNonZero == IF \E k \in 1..n : line[k] # 0
                        THEN MinOf({k \in 1..n : line[k] # 0})
                        ELSE n + 1
    IN  IF line[1] = 0
        THEN [control |-> Compressed, n |-> firstNonZero - 1]
        ELSE [control |-> 0, n |-> firstZero - 1]

\* one cycle's choice of control flag and run length for a non-empty line
ScanRun(line) == ScanLoop(line, Len(line))

\* `n = min(n, 0x7f)`
CapRun(n) == Min(n, MaxRunLength)

\* the `while len(line) > 0` loop: the runs of one line, as bytes
RECURSIVE EncodeRuns(_)
EncodeRuns(line) ==
    IF Len(line) = 0 THEN <<>>
    ELSE LET r == ScanRun(line)
             n == CapRun(r.n)
         IN  <<BitOr(r.control, n)>>
             \o (IF r.control = 0 THEN TakeFirst(line, n) ELSE <<>>)
             \o EncodeRuns(DropFirst(line, n))

\* a plausible slip: the end-of-line control byte is left out
EncodeLineUnterminated(line) == EncodeRuns(line)

\* the bytes appended to self.bytes for one line, end-of-line byte included
EncodeLine(line) == EncodeRuns(line) \o <<0>>

---------------------------------------------------------------------------
(* ETRLE decompression (fileformats/ETRLE.py, etrle_decompress) and the    *)
(* reading of a compressed line as control records.                        *)

\* the control records of a buffer, [control, n, data] each, read as the
\* decompressor reads them; ok is FALSE (MalformedRun) when a literal run
\* reads past the buffer
RECURSIVE Records(_)
Records(buf) ==
    IF Len(buf) = 0 THEN [ok |-> TRUE, recs |-> <<>>]
    ELSE LET c == buf[1]
             n == c % Compressed
             flag == c - n
             rest == Tail(buf)
         IN  IF flag = Compressed
             THEN LET more == Records(rest)
                  IN  [ok |-> more.ok,
                       recs |-> <<[control |-> Compressed, n |-> n,
                                   data |-> <<>>]>> \o more.recs]
             ELSE IF n > Len(rest) THEN [ok |-> FALSE, recs |-> <<>>]
             ELSE LET more == Records(DropFirst(rest, n))
                  IN  [ok |-> more.ok,
                       recs |-> <<[control |-> 0, n |-> n,
                                   data |-> TakeFirst(rest, n)]>> \o more.recs]

RECURSIVE Expand(_)
Expand(recs) ==
    IF Len(recs) = 0 THEN <<>>
    ELSE (IF recs[1].control = Compressed
          THEN Repeat(0, recs[1].n)
          ELSE recs[1].data) \o Expand(Tail(recs))

\* decompress(buffer): a control of 0 ends a line, a set high bit appends
\* `length` zero bytes, a clear one copies the next `length` bytes
EtrleDecompress(buf) ==
    LET r == Records(buf)
    IN  [ok |-> r.ok, data |-> IF r.ok THEN Expand(r.recs) ELSE <<>>]

---------------------------------------------------------------------------
(* The colour codec: _color_components, _color_bytes, validate_spec.       *)
(* A mask or a raw pixel value is a Python integer of 32 bits and more; it *)
(* is modelled as the set of the positions of its one bits, so that        *)
(* &, |, ~, << and >> are exact at every width.                            *)

\* the greatest component value, `255`
MaxComponent == 255

\* the integer whose one bits are at the positions in S
RECURSIVE Value(_)
Value(S) ==
    IF S = {} THEN 0
    ELSE LET k == CHOOSE x \in S : TRUE IN Pow2(k) + Value(S \ {k})

\* the one bits of a byte
ByteBits(n) == {k \in 0..7 : (n \div Pow2(k)) % 2 = 1}

\* int.bit_length()
BitLength(S) == IF S = {} THEN 0 ELSE (CHOOSE k \in S : \A m \in S : m <= k) + 1

\* S << k
ShiftLeft(S, k) == {b + k : b \in S}

\* S >> k
ShiftRight(S, k) == {b - k : b \in {x \in S : x >= k}}

\* ((2 ** depth) - 1) << shift
Field(depth, shift) == shift..(shift + depth - 1)

\* a plausible slip: the scaled value is rounded to the nearest integer
ComponentRounded(color, mask, bits) ==
    LET value == color \cap mask
        shift == BitLength(mask) - bits
        max_value == Pow2(bits) - 1
    IN  IF value = mask THEN MaxComponent
        ELSE IF bits > 8 THEN Value(ShiftRight(value, BitLength(mask) - 8))
        ELSE (2 * Value(ShiftRight(value, shift)) * 255 + max_value)
                 \div (2 * max_value)

\* _color_components.component(color, mask, bits).  (A negative shift count
\* raises ValueError; validate_spec raises for every such mask.)
Component(color, mask, bits) ==
    LET value == color \cap mask
    IN  IF value = mask THEN MaxComponent
        ELSE IF bits > 8
        THEN Value(ShiftRight(value, BitLength(mask) - 8))
        ELSE LET shift == BitLength(mask) - bits
                 max_value == Pow2(bits) - 1
             IN  (Value(ShiftRight(value, shift)) * 255) \div max_value

\* _color_components(color, spec)
ColorComponents(color, spec) ==
    [c \in 1..4 |-> Component(color, spec[c], spec[4 + c])]

\* one turn of the loop of _color_bytes: the bits one component adds to color
PackChannel(byte, mask) ==
    IF byte = 0 \/ mask = {} THEN {}
    ELSE LET shift == BitLength(mask) - 8
         IN  IF shift > 0 THEN ShiftLeft(ByteBits(byte), shift) \cap mask
             ELSE IF shift < 0 THEN ShiftRight(ByteBits(byte), 0 - shift) \cap mask
             ELSE ByteBits(byte) \cap mask

\* the value of `color` after the loop of _color_bytes
ColorValue(components, spec) ==
    UNION {PackChannel(components[c], spec[c]) : c \in 1..4}

\* byte i (from 0) of the little-endian bytes of an integer
ByteAt(S, i) == Value(ShiftRight(S \cap Field(8, 8 * i), 8 * i))

\* the asserts of _color_bytes
ColorBytesAsserts(components, spec) ==
    /\ spec[9] >= spec[5] + spec[6] + spec[7] + spec[8]
    /\ spec[9] % 8 = 0
    /\ \A c \in 1..4 : components[c] >= 0 /\ components[c] <= MaxComponent
    /\ \A c \in 1..4 : spec[c] \subseteq Field(32, 0)
    /\ (spec[9] \in {8, 16, 24} \/ spec[9] >= 32)

\* _color_bytes(components, spec): the bytes of struct.pack, or the error
\* raised (struct.error when the value does not fit the format)
ColorBytes(components, spec) ==
    LET depth == spec[9]
        color == ColorValue(components, spec)
        Packed(n) == [err |-> IF color \subseteq Field(8 * n, 0)
                              THEN "none" ELSE "struct.error",
                      bytes |-> IF color \subseteq Field(8 * n, 0)
                                THEN [i \in 1..n |-> ByteAt(color, i - 1)]
                                ELSE <<>>]
    IN  IF ~ColorBytesAsserts(components, spec)
        THEN [err |-> "AssertionError", bytes |-> <<>>]
        ELSE IF depth = 8 THEN Packed(1)
        ELSE IF depth = 16 THEN Packed(2)
        ELSE IF depth = 24 THEN Packed(3)
        ELSE [err |-> Packed(4).err,
              bytes |-> IF Packed(4).err = "none"
                        THEN Packed(4).bytes \o Repeat(0, (depth - 32) \div 8)
                        ELSE <<>>]

\* The bytes of one pixel: the struct.pack at the end of _color_bytes and the
\* struct.unpack of the Python conversion of StiImageDecoder.decode.

\* the one bits of a natural below 2 ** 20
NatBits(n) == {k \in 0..19 : (n \div Pow2(k)) % 2 = 1}

\* the end of _color_bytes: struct.pack of `color` for the depth, or the
\* error raised
PackColor(color, depth) ==
    LET Fits(n) == color \subseteq Field(8 * n, 0)
        Bytes(n) == [i \in 1..n |-> ByteAt(color, i - 1)]
    IN  IF depth = 8
        THEN IF Fits(1) THEN Bytes(1) ELSE <<"struct.error">>
        ELSE IF depth = 16
        THEN IF Fits(2) THEN Bytes(2) ELSE <<"struct.error">>
        ELSE IF depth = 24
        THEN IF Fits(3) THEN Bytes(3) ELSE <<"struct.error">>
        ELSE IF depth < 32 THEN <<"AssertionError">>
        ELSE IF Fits(4) THEN Bytes(4) \o Repeat(0, (depth - 32) \div 8)
        ELSE <<"struct.error">>

\* the struct.unpack of decode for one pixel of bytes_per_pixel bytes: the
\* raw value given to _color_components.  With three bytes the value is
\* `low + high << 16`, which Python reads as (low + high) << 16
UnpackColor(bytes, bytes_per_pixel) ==
    IF bytes_per_pixel = 1 THEN ByteBits(bytes[1])
    ELSE IF bytes_per_pixel = 2
    THEN ByteBits(bytes[1]) \cup ShiftLeft(ByteBits(bytes[2]), 8)
    ELSE IF bytes_per_pixel = 3
    THEN LET low == bytes[1] + 256 * bytes[2]
             high == bytes[3]
         IN  ShiftLeft(NatBits(low + high), 16)
    ELSE UNION {ShiftLeft(ByteBits(bytes[i]), 8 * (i - 1)) : i \in 1..4}

\* the loop of validate_spec for one channel
ValidateChannel(mask, depth) ==
    IF ~(mask \subseteq Field(32, 0)) THEN "AssertionError"
    ELSE IF ~(depth >= 0 /\ depth <= 32) THEN "AssertionError"
    ELSE IF BitLength(mask) - depth < 0 THEN "ValueError"
    ELSE IF mask \ Field(depth, BitLength(mask) - depth) # {}
    THEN "AssertionError"
    ELSE "ok"

\* validate_spec(spec): "ok", or the exception it raises
ValidateSpec(spec) ==
    LET Bad == {c \in 1..4 : ValidateChannel(spec[c], spec[4 + c]) # "ok"}
        color_depth == spec[9]
    IN  IF Bad # {}
        THEN ValidateChannel(spec[MinOf(Bad)], spec[4 + MinOf(Bad)])
        ELSE IF ~(color_depth >= 0 /\ color_depth <= 255 /\ color_depth % 8 = 0)
        THEN "AssertionError"
        ELSE IF ~(spec[5] + spec[6] + spec[7] + spec[8] <= color_depth)
        THEN "AssertionError"
        ELSE "ok"

\* RAWMODE_SPEC
RAWMODE_SPEC ==
    ("BGR;16" :> <<Field(5, 11), Field(6, 5), Field(5, 0), {}, 5, 6, 5, 0, 16>>)
 @@ ("BGR;15" :> <<Field(5, 10), Field(5, 5), Field(5, 0), {}, 5, 5, 5, 0, 16>>)
 @@ ("BGRA;15" :> <<Field(5, 10), Field(5, 5), Field(5, 0), Field(1, 15), 5, 5, 5, 1, 16>>)
 @@ ("RGBA;15" :> <<Field(5, 0), Field(5, 5), Field(5, 10), Field(1, 15), 5, 5, 5, 1, 16>>)
 @@ ("RGB;4B" :> <<Field(4, 0), Field(4, 4), Field(4, 8), {}, 4, 4, 4, 0, 16>>)
 @@ ("RGBA;4B" :> <<Field(4, 0), Field(4, 4), Field(4, 8), Field(4, 12), 4, 4, 4, 4, 16>>)
 @@ ("BGR" :> <<Field(8, 16), Field(8, 8), Field(8, 0), {}, 8, 8, 8, 0, 24>>)
 @@ ("RGB" :> <<Field(8, 0), Field(8, 8), Field(8, 16), {}, 8, 8, 8, 0, 24>>)
 @@ ("ABGR" :> <<Field(8, 24), Field(8, 16), Field(8, 8), Field(8, 0), 8, 8, 8, 8, 32>>)
 @@ ("XBGR" :> <<Field(8, 24), Field(8, 16), Field(8, 8), {}, 8, 8, 8, 0, 32>>)
 @@ ("ARGB" :> <<Field(8, 8), Field(8, 16), Field(8, 24), Field(8, 0), 8, 8, 8, 8, 32>>)
 @@ ("XRGB" :> <<Field(8, 8), Field(8, 16), Field(8, 24), {}, 8, 8, 8, 0, 32>>)
 @@ ("BGRA" :> <<Field(8, 16), Field(8, 8), Field(8, 0), Field(8, 24), 8, 8, 8, 8, 32>>)
 @@ ("BGRX" :> <<Field(8, 16), Field(8, 8), Field(8, 0), {}, 8, 8, 8, 0, 32>>)
 @@ ("RGBA" :> <<Field(8, 0), Field(8, 8), Field(8, 16), Field(8, 24), 8, 8, 8, 8, 32>>)
 @@ ("RGBX" :> <<Field(8, 0), Field(8, 8), Field(8, 16), {}, 8, 8, 8, 0, 32>>)
 @@ ("R" :> <<Field(8, 0), {}, {}, {}, 8, 0, 0, 0, 8>>)
 @@ ("G" :> <<{}, Field(8, 0), {}, {}, 0, 8, 0, 0, 8>>)
 @@ ("B" :> <<{}, {}, Field(8, 0), {}, 0, 0, 8, 0, 8>>)
 @@ ("A" :> <<{}, {}, {}, Field(8, 0), 0, 0, 0, 8, 8>>)
 @@ ("RGBAX" :> <<Field(8, 0), Field(8, 8), Field(8, 16), Field(8, 24), 8, 8, 8, 8, 40>>)
 @@ ("RGBAXX" :> <<Field(8, 0), Field(8, 8), Field(8, 16), Field(8, 24), 8, 8, 8, 8, 48>>)

\* OFFICIAL_RGB_SPEC
OFFICIAL_RGB_SPEC == RAWMODE_SPEC["BGR;16"]

\* the rawmode of a spec, "None" when RAWMODE_SPEC does not hold it
SpecToRawmode(spec) ==
    IF \E r \in DOMAIN RAWMODE_SPEC : RAWMODE_SPEC[r] = spec
    THEN CHOOSE r \in DOMAIN RAWMODE_SPEC : RAWMODE_SPEC[r] = spec
    ELSE "None"

\* StiImageDecoder.RAWMODES, the rawmodes left to Pillow's raw decoder
DecoderRawmodes ==
    {"BGR;16", "BGR;15", "BGRA;15", "RGBA;15", "RGB;4B", "RGBA;4B",
     "BGR", "RGB", "ABGR", "XBGR", "ARGB", "BGRA", "BGRX", "RGBA",
     "R", "G", "B", "A"}

---------------------------------------------------------------------------
(* The value of each part's variable while another part runs.              *)

EtIdle == [line |-> <<>>, enc |-> <<>>, dec |-> [ok |-> TRUE, data |-> <<>>],
           pc |-> "idle"]

ColIdle == [spec |-> <<>>, comps |-> <<>>, valid |-> "idle",
            packed |-> [err |-> "none", bytes |-> <<>>], raw |-> {},
            out |-> <<>>, pc |-> "idle"]

DecIdle == [do |-> "idle", mode |-> "P", spec |-> <<>>, target |-> 0,
            pixels |-> 0, bytes |-> 0,
            data |-> <<>>, arrived |-> <<>>, chunklen |-> 0, consumed |-> 0,
            errcode |-> 0, handed |-> <<>>,
            result |-> [ok |-> TRUE, data |-> <<>>, rawmode |-> "None"],
            raw_ok |-> TRUE, runs |-> 0, pc |-> "idle"]

LdIdle == [file |-> <<>>, entry |-> "idle", result |-> <<>>, pc |-> "idle"]

SvIdle == [input |-> <<>>, flags |-> {}, save |-> "idle", written |-> <<>>,
           load |-> "idle", loaded |-> <<>>, pc |-> "idle"]

HdIdle == [layout |-> "idle", from |-> "idle", fields |-> <<>>, bytes |-> <<>>,
           decoded |-> <<>>, again |-> <<>>, pc |-> "idle"]

FlIdle == [header |-> <<>>, before |-> <<>>, names |-> {}, name |-> "none",
           value |-> FALSE, pc |-> "idle"]

TcIdle == [image |-> <<>>, written |-> <<>>, file |-> <<>>, loaded |-> <<>>,
           pc |-> "idle"]

PxIdle == [depth |-> 0, color |-> {}, bytes |-> <<>>, decoded |-> {},
           pc |-> "idle"]

HnIdle == [images |-> <<>>, info |-> <<>>, entry |-> "idle", result |-> <<>>,
           pc |-> "idle"]

EncIdle == [do |-> "idle", spec |-> <<>>, w |-> 0, h |-> 0, im |-> <<>>,
            x |-> 0, y |-> 0, bytes |-> <<>>, bufsize |-> 0, buffer |-> <<>>,
            errcode |-> 0, raised |-> "none", out |-> <<>>, done |-> 0,
            total |-> 0, rawy |-> 0, beyond |-> 0, pc |-> "idle"]

---------------------------------------------------------------------------
(* The ETRLE part as a state machine: a scanline is built byte by byte     *)
(* and by long runs, then encoded and decompressed.                        *)

\* bounds of the scanlines
MaxShort == 5
MaxLong == 2
LongRun == 126

ShortBytes == {0, 1}
LongBytes == {0, 2}

\* how many bytes of the line were appended one at a time: the line length
\* less its long runs
NumLong(line) == Len(line) \div LongRun

NumShort(line) == Len(line) % LongRun

EtInit ==
    /\ etrle = [line |-> <<>>, enc |-> <<>>,
                dec |-> [ok |-> TRUE, data |-> <<>>], pc |-> "build"]
    /\ colour = ColIdle
    /\ encoder = EncIdle
    /\ decoder = DecIdle
    /\ loader = LdIdle
    /\ saver = SvIdle
    /\ codec = HdIdle
    /\ flagged = FlIdle
    /\ handler = HnIdle
    /\ truecolor = TcIdle
    /\ pixel = PxIdle

EtAppend ==
    /\ etrle.pc = "build"
    /\ NumShort(etrle.line) < MaxShort
    /\ \E b \in ShortBytes :
          etrle' = [etrle EXCEPT !.line = Append(etrle.line, b)]
    /\ UNCHANGED <<colour, encoder, decoder, loader, saver, codec, flagged, handler, truecolor, pixel>>

EtAppendRun ==
    /\ etrle.pc = "build"
    /\ NumLong(etrle.line) < MaxLong
    /\ \E b \in LongBytes :
          etrle' = [etrle EXCEPT !.line = etrle.line \o Repeat(b, LongRun)]
    /\ UNCHANGED <<colour, encoder, decoder, loader, saver, codec, flagged, handler, truecolor, pixel>>

EtEncode ==
    /\ etrle.pc = "build"
    /\ etrle' = [etrle EXCEPT !.enc = EncodeLine(etrle.line),
                              !.dec = EtrleDecompress(EncodeLine(etrle.line)),
                              !.pc = "encoded"]
    /\ UNCHANGED <<colour, encoder, decoder, loader, saver, codec, flagged, handler, truecolor, pixel>>

EtNext == EtAppend \/ EtAppendRun \/ EtEncode

SpecEtrle == EtInit /\ [][EtNext]_vars

---------------------------------------------------------------------------
(* Claims about the ETRLE encoding of one line.                            *)

\* the number of line bytes the records before record j stand for
RECURSIVE LineBytesBefore(_, _)
LineBytesBefore(recs, j) ==
    IF j <= 1 THEN 0 ELSE LineBytesBefore(recs, j - 1) + recs[j - 1].n

\* position k of the line is a zero that is not the last byte and has a
\* non-zero byte on each side
LoneZeroAt(line, k) ==
    /\ 1 < k /\ k < Len(line)
    /\ line[k] = 0 /\ line[k - 1] # 0 /\ line[k + 1] # 0

\* C1: decompressing the bytes the encoder emits for a line gives the line
\* back, for short lines of any mix of zero and non-zero bytes and for lines
\* longer than 127 bytes
C1_EtrleRoundTrip ==
    etrle.pc = "encoded" => (etrle.dec.ok /\ etrle.dec.data = etrle.line)

C1_Witness ==
    /\ etrle.pc = "encoded"
    /\ Len(etrle.line) > MaxRunLength
    /\ \E k \in 1..Len(etrle.line) : etrle.line[k] = 0
    /\ \E k \in 1..Len(etrle.line) : etrle.line[k] # 0
    /\ etrle.dec.data = etrle.line

\* C8: the encoding of a line ends with one control byte 0x00 and every
\* other control byte of the line carries a length of 1..127
C8_LineTerminator ==
    etrle.pc = "encoded" =>
        LET r == Records(etrle.enc)
            last == Len(r.recs)
        IN  /\ r.ok
            /\ last >= 1
            /\ r.recs[last].control = 0 /\ r.recs[last].n = 0
            /\ \A j \in 1..(last - 1) :
                  r.recs[j].n >= 1 /\ r.recs[j].n <= MaxRunLength

C8_Witness ==
    /\ etrle.pc = "encoded"
    /\ Len(etrle.line) > MaxRunLength
    /\ Len(Records(etrle.enc).recs) >= 4
    /\ \E j \in 1..Len(Records(etrle.enc).recs) :
          \E k \in 1..Len(Records(etrle.enc).recs[j].data) :
              Records(etrle.enc).recs[j].data[k] = 0
    /\ etrle.enc[Len(etrle.enc)] = 0

\* C9: a zero that is not the last byte of the line and lies between two
\* non-zero bytes is a literal of an uncompressed run, never a compressed
\* run of its own, also next to a split at the 127-byte cap
C9_LoneZeroIsLiteral ==
    etrle.pc = "encoded" =>
        LET recs == Records(etrle.enc).recs
        IN  \A k \in 1..Len(etrle.line) :
                LoneZeroAt(etrle.line, k) =>
                    \E j \in 1..Len(recs) :
                        /\ LineBytesBefore(recs, j) < k
                        /\ k <= LineBytesBefore(recs, j) + recs[j].n
                        /\ recs[j].control = 0
                        /\ recs[j].data[k - LineBytesBefore(recs, j)] = 0

C9_Witness ==
    /\ etrle.pc = "encoded"
    /\ LoneZeroAt(etrle.line, MaxRunLength + 1)
    /\ \A k \in 1..MaxRunLength : etrle.line[k] # 0
    /\ Records(etrle.enc).recs[1].n = MaxRunLength
    /\ Records(etrle.enc).recs[2].control = 0
    /\ Records(etrle.enc).recs[2].data[1] = 0

---------------------------------------------------------------------------
(* The colour codec as a state machine: a spec is validated, then          *)
(* components are packed and the packed pixel unpacked, or the bytes of a  *)
(* raw pixel are decoded as the "rgb" decoder decodes them.                *)

\* the specs given to the codec: some of RAWMODE_SPEC, other specs of
\* whole, disjoint fields, and specs with a mask that is not a whole field,
\* with overlapping masks, with a mask wider than the pixel, or with a
\* total depth of 0, of 12 or of 72 bits
ColorSpecs ==
    {RAWMODE_SPEC[m] : m \in {"BGR;16", "BGRA;15", "RGBA;4B", "RGB", "ABGR",
                              "A", "RGBAXX"}}
    \cup {<<Field(3, 5), Field(3, 2), Field(2, 0), {}, 3, 3, 2, 0, 8>>,
          <<Field(7, 9), Field(7, 2), Field(2, 0), {}, 7, 7, 2, 0, 16>>,
          <<Field(5, 0), Field(6, 5), Field(5, 11), {}, 5, 6, 5, 0, 16>>,
          <<Field(10, 20), Field(10, 10), Field(10, 0), {}, 10, 10, 10, 0, 32>>,
          <<{2}, {}, {}, {}, 3, 0, 0, 0, 8>>,
          <<Field(8, 0), Field(8, 0), {}, {}, 8, 8, 0, 0, 16>>,
          <<Field(5, 11), Field(6, 5), Field(5, 0), {}, 5, 6, 5, 0, 8>>,
          <<{0, 4}, {}, {}, {}, 2, 0, 0, 0, 8>>,
          <<{}, Field(5, 0), {}, {}, 0, 6, 0, 0, 8>>,
          <<Field(5, 11), Field(6, 5), Field(5, 0), {}, 5, 6, 5, 0, 12>>,
          <<{}, {}, {}, {}, 0, 0, 0, 0, 0>>,
          <<Field(8, 0), Field(8, 8), Field(8, 16), Field(8, 24), 8, 8, 8, 8, 72>>}

\* the components given to pack: every channel takes every value 0..255
ComponentTuples ==
    {<<x, MaxComponent - x, (3 * x) % (MaxComponent + 1), a>> :
        x \in 0..MaxComponent, a \in {0, 128, MaxComponent}}

\* a raw pixel whose field under each mask holds the low bits of a
\* component; with fill, every bit of the pixel outside the masks is set
RawPixel(components, spec, fill) ==
    UNION {ShiftLeft(ByteBits(components[c]),
                     BitLength(spec[c]) - Cardinality(spec[c])) \cap spec[c] :
           c \in 1..4}
    \cup (IF fill
          THEN Field(spec[9], 0) \ (spec[1] \cup spec[2] \cup spec[3] \cup spec[4])
          ELSE {})

\* struct.unpack of one unsigned little-endian number of up to four bytes
\* ('<H' of a 16-bit pixel, '<L' of a mask), as the set of its one bits
PixelOfBytes(bytes) ==
    UNION {ShiftLeft(ByteBits(bytes[i]), 8 * (i - 1)) : i \in 1..Min(Len(bytes), 4)}

ColInit ==
    /\ colour \in {[ColIdle EXCEPT !.spec = spec, !.comps = comps,
                                   !.valid = "none", !.pc = "new"] :
                       spec \in ColorSpecs, comps \in ComponentTuples}
    /\ etrle = EtIdle
    /\ encoder = EncIdle
    /\ decoder = DecIdle
    /\ loader = LdIdle
    /\ saver = SvIdle
    /\ codec = HdIdle
    /\ flagged = FlIdle
    /\ handler = HnIdle
    /\ truecolor = TcIdle
    /\ pixel = PxIdle

\* validate_spec(spec), as StiImageEncoder.init and StiImageDecoder.init
\* call it before any pixel is converted
ColValidate ==
    /\ colour.pc = "new"
    /\ colour' = [colour EXCEPT
                     !.valid = ValidateSpec(colour.spec),
                     !.pc = IF ValidateSpec(colour.spec) = "ok"
                            THEN "valid" ELSE "rejected"]
    /\ UNCHANGED <<etrle, encoder, decoder, loader, saver, codec, flagged, handler, truecolor, pixel>>

\* _color_bytes(components, spec); the raw value is the one the decoder reads
\* from the bytes packed
ColPack ==
    /\ colour.pc = "valid"
    /\ LET packed == ColorBytes(colour.comps, colour.spec)
       IN  colour' = [colour EXCEPT
                         !.packed = packed,
                         !.raw = IF packed.err = "none"
                                 THEN UnpackColor(packed.bytes,
                                                  colour.spec[9] \div 8)
                                 ELSE {},
                         !.pc = IF packed.err = "none"
                                THEN "packed" ELSE "packerror"]
    /\ UNCHANGED <<etrle, encoder, decoder, loader, saver, codec, flagged, handler, truecolor, pixel>>

\* the "rgb" branch of StiImageDecoder.decode for one pixel of a file, the
\* bytes of a raw pixel: when the rawmode of the spec is one of RAWMODES
\* and set_as_raw accepts it, the bytes go to Pillow and no value is read;
\* else a pixel of no byte fails the assertion bytes_per_pixel >= 4, and
\* any other pixel is read as a number by struct.unpack and converted by
\* _color_components
ColRaw ==
    /\ colour.pc = "valid"
    /\ \E fill \in BOOLEAN :
          \E accepted \in IF SpecToRawmode(colour.spec) \in DecoderRawmodes
                          THEN BOOLEAN ELSE {FALSE} :
             LET Read(bytes_per_pixel, bytes) ==
                     IF accepted
                     THEN [colour EXCEPT !.pc = "rawfast"]
                     ELSE IF bytes_per_pixel < 1
                     THEN [colour EXCEPT !.pc = "rawerror"]
                     ELSE [colour EXCEPT
                              !.raw = UnpackColor(bytes, bytes_per_pixel),
                              !.out = ColorComponents(
                                          UnpackColor(bytes, bytes_per_pixel),
                                          colour.spec),
                              !.pc = "unpackedraw"]
                 Of(bytes_per_pixel, raw) ==
                     Read(bytes_per_pixel,
                          [i \in 1..bytes_per_pixel |-> ByteAt(raw, i - 1)])
             IN  colour' = Of(colour.spec[9] \div 8,
                                  RawPixel(colour.comps, colour.spec, fill))
    /\ UNCHANGED <<etrle, encoder, decoder, loader, saver, codec, flagged, handler, truecolor, pixel>>

\* _color_components(color, spec) of the value read from the bytes packed
ColUnpack ==
    /\ colour.pc = "packed"
    /\ colour' = [colour EXCEPT
                     !.out = ColorComponents(colour.raw, colour.spec),
                     !.pc = "unpacked"]
    /\ UNCHANGED <<etrle, encoder, decoder, loader, saver, codec, flagged, handler, truecolor, pixel>>

ColNext == ColValidate \/ ColPack \/ ColRaw \/ ColUnpack

SpecColor == ColInit /\ [][ColNext]_vars

---------------------------------------------------------------------------
(* Claims about the colour codec.                                          *)

Abs(x) == IF x < 0 THEN 0 - x ELSE x

\* the channels whose depth is 1..8
NarrowChannels(spec) == {c \in 1..4 : spec[4 + c] >= 1 /\ spec[4 + c] <= 8}

\* C2: for every spec validate_spec accepts and all components, unpacking
\* the packed pixel gives each channel back within 256 / (1 << depth) when
\* its depth is below 8 and exactly when its depth is 8
C2_ColourRoundTrip ==
    colour.pc = "unpacked" =>
        \A c \in NarrowChannels(colour.spec) :
            LET depth == colour.spec[4 + c]
            IN  IF depth = 8
                THEN colour.out[c] = colour.comps[c]
                ELSE Abs(colour.out[c] - colour.comps[c]) * Pow2(depth) <= 256

\* the value floor(v * 255 / ((1 << bits) - 1)) of the field of `bits` bits
\* that ends at the mask's highest bit, for the bits of the pixel under the
\* mask
ScaledField(raw, mask, bits) ==
    LET low == BitLength(mask) - bits
        v == Value({k \in 0..(bits - 1) : k + low \in raw /\ k + low \in mask})
    IN  (v * 255) \div (Pow2(bits) - 1)

\* C10: unpack of a channel of depth 1..8 gives 255 when the bits under the
\* mask equal the mask and floor(v * 255 / ((1 << bits) - 1)) otherwise,
\* always a value in 0..255
C10_UnpackChannel ==
    colour.pc \in {"unpacked", "unpackedraw"} =>
        \A c \in NarrowChannels(colour.spec) :
            /\ colour.out[c] >= 0 /\ colour.out[c] <= 255
            /\ colour.out[c] = IF \A k \in colour.spec[c] : k \in colour.raw
                         THEN 255
                         ELSE ScaledField(colour.raw, colour.spec[c], colour.spec[4 + c])

\* a pixel with one channel saturated and another whose scaled value is not
\* a whole number, so that the floor shows
C10_Witness ==
    /\ colour.pc = "unpackedraw"
    /\ colour.spec = <<Field(5, 0), Field(6, 5), Field(5, 11), {}, 5, 6, 5, 0, 16>>
    /\ colour.spec[1] \subseteq colour.raw /\ colour.out[1] = 255
    /\ ~(colour.spec[2] \subseteq colour.raw)
    /\ (Value(ShiftRight(colour.raw \cap colour.spec[2], 5)) * 255) % 63 > 31
    /\ colour.out[2] = (Value(ShiftRight(colour.raw \cap colour.spec[2], 5)) * 255) \div 63

\* the channels a spec lacks: depth 0 and mask 0
AbsentChannels(spec) == {c \in 1..4 : spec[4 + c] = 0 /\ spec[c] = {}}

\* C11: unpack gives 0 for every channel whose depth is 0 (mask 0), the
\* alpha channel included, whatever the raw pixel is
C11_AbsentChannelZero ==
    colour.pc \in {"unpacked", "unpackedraw"} =>
        \A c \in AbsentChannels(colour.spec) : colour.out[c] = 0

\* the mask is ((1 << depth) - 1) << shift for some shift
WholeField(mask, depth) == \E shift \in 0..32 : mask = Field(depth, shift)

\* the total depth is a positive multiple of 8 that is at most 64
TotalDepthFits(color_depth) ==
    color_depth > 0 /\ color_depth % 8 = 0 /\ color_depth <= 64

\* C12: validate_spec rejects every spec with a mask that is not depth
\* contiguous one bits, with a total depth that is not a positive multiple
\* of 8 up to 64, or with channel depths that add up to more than the total
C12_ValidateSpecRejects ==
    (/\ colour.pc \in {"valid", "rejected"}
     /\ \/ \E c \in 1..4 : ~WholeField(colour.spec[c], colour.spec[4 + c])
        \/ ~TotalDepthFits(colour.spec[9])
        \/ colour.spec[5] + colour.spec[6] + colour.spec[7] + colour.spec[8]
               > colour.spec[9])
    => colour.valid # "ok"

---------------------------------------------------------------------------
(* StiImageEncoder: one encode step of each of the three encoders, as a    *)
(* function of the encoder's fields and the step's budget.  A step gives   *)
(* the fields after the step with the returned buffer and status.          *)

\* Python's None in self.x and self.y
None == -1

\* the default budget of encode(), larger than any encoding of the model
DefaultBufsize == 16384

\* `v or d`: None and 0 are false
OrElse(v, d) == IF v = None \/ v = 0 THEN d ELSE v

\* pixel_access[x, y]
Pixel(e, x, y) == e.im[y * e.w + x + 1]

\* the components of the colour k of the images: every colour differs
PixelColor(k) ==
    <<(k * 37 + 11) % 256, (k * 101 + 5) % 256, 255 - ((k * 53) % 256), 255>>

\* line y of the image
Row(e, y) == [x \in 1..e.w |-> Pixel(e, x - 1, y)]

\* self.bytes[:bufsize]
Slice(bytes, bufsize) == TakeFirst(bytes, bufsize)

\* the end of _encode_colors and _encode_etrle: return bufsize bytes and
\* keep the rest when more than bufsize are pending, else return them all
Flush(e, bufsize, bytes) ==
    IF Len(bytes) > bufsize
    THEN [e EXCEPT !.bytes = DropFirst(bytes, bufsize), !.bufsize = bufsize,
                   !.buffer = Slice(bytes, bufsize), !.errcode = 0]
    ELSE [e EXCEPT !.bytes = <<>>, !.bufsize = bufsize,
                   !.buffer = bytes, !.errcode = 1]

\* StiImageEncoder.RAWMODES: the rawmodes handed to Pillow's raw encoder
EncoderRawmodes ==
    {"BGR", "RGB", "ABGR", "XBGR", "XRGB", "BGRA", "BGRX", "RGBA",
     "R", "G", "B", "A"}

\* the inner loop of _encode_colors over line y from pixel x; raised is the
\* exception _color_bytes ends the loop with
RECURSIVE ColorsRow(_, _, _, _, _)
ColorsRow(e, bufsize, y, x, bytes) ==
    IF x >= e.w
    THEN [suspended |-> FALSE, raised |-> "none", x |-> None, bytes |-> bytes]
    ELSE IF Len(bytes) > bufsize
    THEN [suspended |-> TRUE, raised |-> "none", x |-> x, bytes |-> bytes]
    ELSE LET Packed(packed) ==
                 IF packed.err # "none"
                 THEN [suspended |-> FALSE, raised |-> packed.err, x |-> x,
                       bytes |-> bytes]
                 ELSE ColorsRow(e, bufsize, y, x + 1, bytes \o packed.bytes)
         IN  Packed(ColorBytes(Pixel(e, x, y), e.spec))

\* the outer loop of _encode_colors from line y; sx is self.x. An exception
\* leaves self.y as the call found it, self.x as the last row ended left it
\* and self.bytes with the pixels packed so far, and returns no buffer
RECURSIVE ColorsRows(_, _, _, _, _)
ColorsRows(e, bufsize, y, sx, bytes) ==
    IF y >= e.h
    THEN Flush([e EXCEPT !.x = sx, !.y = e.h], bufsize, bytes)
    ELSE LET After(row) ==
                 IF row.raised # "none"
                 THEN [e EXCEPT !.x = sx, !.bytes = row.bytes,
                                !.buffer = <<>>, !.raised = row.raised]
                 ELSE IF row.suspended
                 THEN [e EXCEPT !.x = row.x, !.y = y,
                                !.bytes = DropFirst(row.bytes, bufsize),
                                !.bufsize = bufsize,
                                !.buffer = Slice(row.bytes, bufsize),
                                !.errcode = 0]
                 ELSE ColorsRows(e, bufsize, y + 1, None, row.bytes)
         IN  After(ColorsRow(e, bufsize, y, OrElse(sx, 0), bytes))

\* the bands of a pixel in the order Pillow's packer of a rawmode writes
\* them: 1..4 are red, green, blue and alpha, 0 is the padding byte of zeros
RawBands ==
    [r \in EncoderRawmodes |->
        CASE r = "BGR" -> <<3, 2, 1>>
          [] r = "RGB" -> <<1, 2, 3>>
          [] r = "ABGR" -> <<4, 3, 2, 1>>
          [] r = "XBGR" -> <<0, 3, 2, 1>>
          [] r = "XRGB" -> <<0, 1, 2, 3>>
          [] r = "BGRA" -> <<3, 2, 1, 4>>
          [] r = "BGRX" -> <<3, 2, 1, 0>>
          [] r = "RGBA" -> <<1, 2, 3, 4>>
          [] r = "R" -> <<1>>
          [] r = "G" -> <<2>>
          [] r = "B" -> <<3>>
          [] r = "A" -> <<4>>]

\* the bytes Pillow's packer of a rawmode writes for one pixel
RawPacked(color, rawmode) ==
    LET Of(bands) ==
            [i \in 1..Len(bands) |->
                IF bands[i] = 0 THEN 0 ELSE color[bands[i]]]
    IN  Of(RawBands[rawmode])

\* lines y, y + 1, ... below line last of the image as the packer of a
\* rawmode writes them
RECURSIVE RawRows(_, _, _, _)
RawRows(e, rawmode, y, last) ==
    IF y >= last THEN <<>>
    ELSE LET Line(n) ==
                 [i \in 1..(e.w * n) |->
                     RawPacked(Pixel(e, (i - 1) \div n, y),
                               rawmode)[((i - 1) % n) + 1]]
         IN  Line(Len(RawBands[rawmode])) \o RawRows(e, rawmode, y + 1, last)

\* the memory that follows the last line of an image: Unreadable, or the
\* byte that fills it
Unreadable == 0 - 1
Beyond == {0, 255, Unreadable}

\* rawencoder.encode(bufsize) of Pillow's raw encoder, made by the first
\* step and kept in self.rawencoder: its state is the line rawy it is at and
\* the errcode it last set. A budget below one line is a configuration
\* error (-8) that returns nothing; else as many whole lines as fit are
\* packed, and the line that ends the image sets errcode 1. The errcode stays
\* as set until set again. A step after the last line reads one line of the
\* memory that follows the image
RawEncode(e, bufsize) ==
    LET Upto(rawmode, last) ==
            [e EXCEPT !.bufsize = bufsize,
                      !.buffer = RawRows(e, rawmode, e.rawy, last),
                      !.rawy = last,
                      !.errcode = IF last >= e.h THEN 1 ELSE e.errcode]
        Lines(rawmode, line) ==
            IF bufsize < line
            THEN [e EXCEPT !.bufsize = bufsize, !.buffer = <<>>,
                           !.errcode = 0 - 8]
            ELSE IF e.rawy >= e.h
            THEN IF e.beyond = Unreadable
                 THEN [e EXCEPT !.bufsize = bufsize, !.buffer = <<>>,
                                !.raised = "SegmentationFault"]
                 ELSE [e EXCEPT !.bufsize = bufsize,
                                !.buffer = [i \in 1..line |-> e.beyond],
                                !.rawy = e.rawy + 1, !.errcode = 1]
            ELSE Upto(rawmode, Min(e.rawy + (bufsize \div line), e.h))
    IN  Lines(SpecToRawmode(e.spec),
              e.w * Len(RawBands[SpecToRawmode(e.spec)]))

\* _encode_colors(bufsize): Pillow's raw encoder when the spec is one of
\* RAWMODES, else the Python conversion of every pixel
EncodeColors(e, bufsize) ==
    IF SpecToRawmode(e.spec) \in EncoderRawmodes
    THEN RawEncode(e, bufsize)
    ELSE ColorsRows(e, bufsize, OrElse(e.y, 0), e.x, e.bytes)

\* the inner loop of _encode_indexes over line y from pixel x
RECURSIVE IndexesRow(_, _, _, _, _)
IndexesRow(e, bufsize, y, x, buffer) ==
    IF x >= e.w
    THEN [suspended |-> FALSE, x |-> None, buffer |-> buffer]
    ELSE IF bufsize <= Len(buffer)
    THEN [suspended |-> TRUE, x |-> x, buffer |-> buffer]
    ELSE IndexesRow(e, bufsize, y, x + 1, Append(buffer, Pixel(e, x, y)))

\* the outer loop of _encode_indexes from line y; sx is self.x.  The loop
\* leaves self.y alone when it ends
RECURSIVE IndexesRows(_, _, _, _, _)
IndexesRows(e, bufsize, y, sx, buffer) ==
    IF y >= e.h
    THEN [e EXCEPT !.x = sx, !.bufsize = bufsize, !.buffer = buffer,
                   !.errcode = 1]
    ELSE LET After(row) ==
                 IF row.suspended
                 THEN [e EXCEPT !.x = row.x, !.y = y, !.bufsize = bufsize,
                                !.buffer = row.buffer, !.errcode = 0]
                 ELSE IndexesRows(e, bufsize, y + 1, None, row.buffer)
         IN  After(IndexesRow(e, bufsize, y, OrElse(sx, 0), buffer))

\* _encode_indexes(bufsize)
EncodeIndexes(e, bufsize) == IndexesRows(e, bufsize, OrElse(e.y, 0), e.x, <<>>)

\* the loop of _encode_etrle from line y
RECURSIVE EtrleRows(_, _, _, _)
EtrleRows(e, bufsize, y, bytes) ==
    IF y >= e.h
    THEN Flush([e EXCEPT !.y = e.h], bufsize, bytes)
    ELSE IF Len(bytes) > bufsize
    THEN [e EXCEPT !.y = y, !.bytes = DropFirst(bytes, bufsize),
                   !.bufsize = bufsize, !.buffer = Slice(bytes, bufsize),
                   !.errcode = 0]
    ELSE EtrleRows(e, bufsize, y + 1, bytes \o EncodeLine(Row(e, y)))

\* _encode_etrle(bufsize)
EncodeEtrle(e, bufsize) == EtrleRows(e, bufsize, OrElse(e.y, 0), e.bytes)

\* a step that always starts at the first line and pixel
EncodeFromStart(e, bufsize) ==
    IF e.do = "colors"
    THEN IF SpecToRawmode(e.spec) \in EncoderRawmodes
         THEN RawEncode([e EXCEPT !.rawy = 0], bufsize)
         ELSE ColorsRows(e, bufsize, 0, None, e.bytes)
    ELSE IF e.do = "indexes" THEN IndexesRows(e, bufsize, 0, None, <<>>)
    ELSE EtrleRows(e, bufsize, 0, e.bytes)

\* StiImageEncoder.encode(bufsize); raised names the exception the call ended
\* with instead of returning
Encode(e, bufsize) ==
    LET Called(called) ==
            IF e.do = "colors" THEN EncodeColors(called, bufsize)
            ELSE IF e.do = "indexes" THEN EncodeIndexes(called, bufsize)
            ELSE EncodeEtrle(called, bufsize)
    IN  Called([e EXCEPT !.raised = "none"])

RECURSIVE EncodeToPyfd(_, _, _)

\* PyEncoder.encode_to_pyfd from an encoder e: encode() with the default
\* budget until a step reports a status, each buffer written to fd; an
\* exception of encode() ends the loop with what was written before it
EncodeToPyfd(e, total_bytes, written) ==
    LET After(step) ==
            IF step.raised # "none"
            THEN [total_bytes |-> total_bytes, errcode |-> 0,
                  written |-> written, raised |-> step.raised]
            ELSE IF step.errcode # 0
            THEN [total_bytes |-> total_bytes + Len(step.buffer),
                  errcode |-> step.errcode,
                  written |-> written \o step.buffer, raised |-> "none"]
            ELSE EncodeToPyfd(step, total_bytes + Len(step.buffer),
                              written \o step.buffer)
    IN  After(Encode(e, DefaultBufsize))

\* the loop of encode_to_pyfd that follows the first step, from the encoder
\* that step left
RECURSIVE DrivenOn(_)
DrivenOn(e) ==
    IF e.raised # "none" \/ e.errcode # 0 THEN e
    ELSE DrivenOn(Encode(e, DefaultBufsize))

---------------------------------------------------------------------------
(* The streaming encoder as a state machine: an encoder is made for an     *)
(* image, then encode steps are taken with any budgets, a few of them      *)
(* after the first 'done'.                                                  *)

\* bounds of the images, the budgets and the steps after 'done'
MaxWidth == 3
MaxHeight == 2
MaxBuf == 4
MaxAfterDone == 1

\* the palette indexes of the images given to the ETRLE encoder
EtrlePixels == {0, 1}

\* the specs of "colors": five that the Python conversion serves, with
\* pixels of one, two, three and five bytes, and four that Pillow's raw
\* encoder serves, with pixels of one, three and four bytes
EncoderSpecs ==
    {<<Field(3, 5), Field(3, 2), Field(2, 0), {}, 3, 3, 2, 0, 8>>,
     OFFICIAL_RGB_SPEC,
     <<Field(7, 17), Field(7, 10), Field(7, 3), Field(3, 0), 7, 7, 7, 3, 24>>,
     RAWMODE_SPEC["RGBAX"],
     <<Field(8, 8), {}, {}, {}, 8, 0, 0, 0, 8>>,
     RAWMODE_SPEC["BGR"], RAWMODE_SPEC["XBGR"], RAWMODE_SPEC["ABGR"],
     RAWMODE_SPEC["A"]}

\* the images: every image of EtrlePixels for "etrle"; for the other two,
\* which treat every pixel alike, the image whose pixels count 1, 2, 3...
Images(do, w, h) ==
    IF do = "etrle" THEN [1..(w * h) -> EtrlePixels]
    ELSE IF do = "colors" THEN {[k \in 1..(w * h) |-> PixelColor(k)]}
    ELSE {[k \in 1..(w * h) |-> k]}

\* StiImageEncoder.init and setimage
NewEncoder(do, spec, w, h, im) ==
    [do |-> do, spec |-> spec, w |-> w, h |-> h, im |-> im,
     x |-> None, y |-> None, bytes |-> <<>>, bufsize |-> 0, buffer |-> <<>>,
     errcode |-> 0, raised |-> "none", out |-> <<>>, done |-> 0,
     total |-> None, rawy |-> 0, beyond |-> 0, pc |-> "init"]

\* an encoder of every kind for every image; the memory that follows the
\* image matters to the sessions of Pillow's raw encoder only
EncInit ==
    /\ \E do \in {"colors", "indexes", "etrle"},
          w \in 1..MaxWidth, h \in 1..MaxHeight :
          \E spec \in IF do = "colors"
                      THEN {s \in EncoderSpecs : ValidateSpec(s) = "ok"}
                      ELSE {<<>>},
             im \in Images(do, w, h) :
             \E beyond \in IF SpecToRawmode(spec) \in EncoderRawmodes
                           THEN Beyond ELSE {0} :
                 encoder = [NewEncoder(do, spec, w, h, im)
                                EXCEPT !.beyond = beyond]
    /\ etrle = EtIdle
    /\ colour = ColIdle
    /\ decoder = DecIdle
    /\ loader = LdIdle
    /\ saver = SvIdle
    /\ codec = HdIdle
    /\ flagged = FlIdle
    /\ handler = HnIdle
    /\ truecolor = TcIdle
    /\ pixel = PxIdle

\* one step: the buffers count towards out up to the first 'done'; a step
\* that raised returned neither a buffer nor a status, and a negative
\* errcode is an error of the step
Stepped(bufsize) ==
    LET After(e) ==
            IF e.raised # "none"
            THEN [e EXCEPT !.pc = "raised"]
            ELSE [e EXCEPT !.out = IF encoder.done = 0
                                  THEN encoder.out \o e.buffer
                                  ELSE encoder.out,
                          !.done = IF e.errcode = 1 THEN encoder.done + 1
                                   ELSE encoder.done,
                          !.pc = IF e.errcode = 0 THEN "more"
                                 ELSE IF e.errcode = 1 THEN "done"
                                 ELSE "error"]
    IN  After(Encode(encoder, bufsize))

\* encode(bufsize) of a "colors" encoder
EncColors ==
    /\ encoder.do = "colors"
    /\ encoder.pc \notin {"driven", "raised"}
    /\ encoder.done <= MaxAfterDone
    /\ \E bufsize \in 1..MaxBuf : encoder' = Stepped(bufsize)
    /\ UNCHANGED <<etrle, colour, decoder, loader, saver, codec, flagged, handler, truecolor, pixel>>

\* encode(bufsize) of an "indexes" encoder
EncIndexes ==
    /\ encoder.do = "indexes"
    /\ encoder.pc \notin {"driven", "raised"}
    /\ encoder.done <= MaxAfterDone
    /\ \E bufsize \in 1..MaxBuf : encoder' = Stepped(bufsize)
    /\ UNCHANGED <<etrle, colour, decoder, loader, saver, codec, flagged, handler, truecolor, pixel>>

\* encode(bufsize) of an "etrle" encoder
EncEtrle ==
    /\ encoder.do = "etrle"
    /\ encoder.pc \notin {"driven", "raised"}
    /\ encoder.done <= MaxAfterDone
    /\ \E bufsize \in 1..MaxBuf : encoder' = Stepped(bufsize)
    /\ UNCHANGED <<etrle, colour, decoder, loader, saver, codec, flagged, handler, truecolor, pixel>>

\* encode_to_pyfd() of a new encoder: the bytes written to fd are in out,
\* the count returned in total, and the encoder is as the loop left it
EncToPyfd ==
    /\ encoder.pc = "init"
    /\ LET Driven(r, left) ==
               IF r.raised # "none"
               THEN [left EXCEPT !.out = r.written, !.pc = "raised"]
               ELSE [left EXCEPT !.out = r.written, !.total = r.total_bytes,
                                 !.errcode = r.errcode, !.done = 1,
                                 !.pc = "driven"]
       IN  encoder' = Driven(EncodeToPyfd(encoder, 0, <<>>),
                             DrivenOn(Encode(encoder, DefaultBufsize)))
    /\ UNCHANGED <<etrle, colour, decoder, loader, saver, codec, flagged, handler, truecolor, pixel>>

EncNext == EncColors \/ EncIndexes \/ EncEtrle \/ EncToPyfd

SpecEncode == EncInit /\ [][EncNext]_vars

---------------------------------------------------------------------------
(* Claims about the streaming encoder.                                     *)

\* the bytes of the whole image, line by line, as each encoder writes them
RECURSIVE WholeImage(_, _)
WholeImage(e, k) ==
    IF k > e.w * e.h THEN <<>>
    ELSE IF e.do = "colors"
    THEN ColorBytes(e.im[k], e.spec).bytes \o WholeImage(e, k + 1)
    ELSE IF e.do = "indexes" THEN <<e.im[k]>> \o WholeImage(e, k + 1)
    ELSE EncodeLine(Row(e, (k - 1) \div e.w)) \o WholeImage(e, k + e.w)

\* C3: the buffers returned up to and including the first 'done' step,
\* concatenated, are the buffer that one step with an unbounded budget
\* returns for the same image, and that step reports 'done'; they are the
\* encoding of every pixel once, in order
C3_ChunkingIndependent ==
    encoder.done >= 1 =>
        LET fresh == NewEncoder(encoder.do, encoder.spec, encoder.w,
                                encoder.h, encoder.im)
            single == Encode(fresh, DefaultBufsize)
        IN  /\ single.errcode = 1
            /\ encoder.out = single.buffer
            /\ encoder.out = WholeImage(encoder, 1)

\* a "colors" image of several lines was returned in pieces: the last step
\* returned less than the whole output, after a suspension inside a line
C3_Witness ==
    /\ encoder.do = "colors"
    /\ encoder.done = 1
    /\ encoder.w = MaxWidth /\ encoder.h = MaxHeight
    /\ Len(encoder.buffer) > 0
    /\ Len(encoder.out) >= Len(encoder.buffer) + 3
    /\ encoder.bufsize = 2

\* C5: a step returns at most bufsize bytes, and exactly bufsize bytes when
\* it reports that more data is pending
C5_StepSize ==
    encoder.pc \in {"more", "done"} =>
        /\ Len(encoder.buffer) <= encoder.bufsize
        /\ (encoder.errcode = 0 => Len(encoder.buffer) = encoder.bufsize)

---------------------------------------------------------------------------
(* StiImageDecoder: one decode step gathers the chunk into self.data until *)
(* the target byte count is there, then runs the decode primitive.         *)

\* the colour of a "fill" decoder, one palette index
FillColor == <<7>>

\* buffer[:self.bytes] with the whole chunk kept
KeptWhole(buffer, n) == buffer

\* buffer[:self.bytes]
Kept(buffer, n) == TakeFirst(buffer, n)

\* the byte strings of a list, joined
RECURSIVE Join(_)
Join(seqs) == IF seqs = <<>> THEN <<>> ELSE seqs[1] \o Join(Tail(seqs))

\* len(self.mode)
ModeBands(mode) == IF mode = "RGBA" THEN 4 ELSE IF mode = "RGB" THEN 3 ELSE 1

\* the "rgb" branch of decode: the bytes go to set_as_raw with the rawmode
\* of the spec when it is one of RAWMODES; when that is not so, or when
\* set_as_raw raises (raw_ok is false), each pixel is read as a number and
\* its components, as many as the mode has bands, go to set_as_raw; a pixel
\* of no byte fails the assertion bytes_per_pixel >= 4
DecodeRgb(d, buffer) ==
    LET bytes_per_pixel == d.spec[9] \div 8
        rawmode == SpecToRawmode(d.spec)
        color(k) == UnpackColor(SubSeq(buffer, (k - 1) * bytes_per_pixel + 1,
                                       k * bytes_per_pixel),
                                bytes_per_pixel)
    IN  IF Len(buffer) # d.pixels * bytes_per_pixel
        THEN [ok |-> FALSE, data |-> <<>>, rawmode |-> "None"]
        ELSE IF rawmode \in DecoderRawmodes /\ d.raw_ok
        THEN [ok |-> TRUE, data |-> buffer, rawmode |-> rawmode]
        ELSE IF bytes_per_pixel < 1
        THEN [ok |-> FALSE, data |-> <<>>, rawmode |-> "None"]
        ELSE [ok |-> TRUE,
              data |-> Join([k \in 1..d.pixels |->
                                SubSeq(ColorComponents(color(k), d.spec),
                                       1, ModeBands(d.mode))]),
              rawmode |-> "None"]

\* the decode primitive of each kind of decoder: the pixels given to
\* set_as_raw and the rawmode given with them, or the failure of the
\* primitive
DecodePrimitive(d, buffer) ==
    IF d.do = "rgb" THEN DecodeRgb(d, buffer)
    ELSE IF d.do = "indexes"
    THEN [ok |-> TRUE, data |-> buffer, rawmode |-> "None"]
    ELSE IF d.do = "fill"
    THEN [ok |-> TRUE, data |-> [i \in 1..d.pixels |-> FillColor[1]],
          rawmode |-> "None"]
    ELSE [ok |-> EtrleDecompress(buffer).ok,
          data |-> EtrleDecompress(buffer).data, rawmode |-> "None"]

\* StiImageDecoder.decode(buffer)
Decode(d, buffer) ==
    IF d.bytes > Len(buffer)
    THEN [d EXCEPT !.data = d.data \o buffer,
                   !.bytes = d.bytes - Len(buffer),
                   !.chunklen = Len(buffer),
                   !.consumed = Len(buffer), !.errcode = 0, !.pc = "more"]
    ELSE LET data == d.data \o Kept(buffer, d.bytes)
             result == DecodePrimitive(d, data)
         IN  [d EXCEPT !.data = data, !.bytes = 0,
                       !.chunklen = Len(buffer),
                       !.handed = data, !.result = result,
                       !.runs = d.runs + 1,
                       !.consumed = -1, !.errcode = 1,
                       !.pc = IF result.ok THEN "done" ELSE "error"]

---------------------------------------------------------------------------
(* The streaming decoder as a state machine: a decoder is made for a       *)
(* target byte count, then chunks of any length arrive, a few of them      *)
(* after the target was reached.                                           *)

\* bounds of the target byte count and of the chunks
MaxTarget == 3
MaxChunk == 3

\* the bytes of the chunks: an end of line, a literal or a run of one
\* literal, a run of one transparent pixel
ChunkBytes == {0, 1, 129}

\* the chunks: every byte string of up to MaxChunk bytes
Chunks == UNION {[1..n -> ChunkBytes] : n \in 0..MaxChunk}

\* StiImageDecoder.init
NewDecoder(do, target, pixels) ==
    [DecIdle EXCEPT !.do = do, !.target = target, !.pixels = pixels,
                    !.bytes = target, !.pc = "init"]

\* StiImageDecoder.init of an "rgb" decoder
NewRgbDecoder(mode, spec, target, pixels) ==
    [NewDecoder("rgb", target, pixels) EXCEPT !.mode = mode, !.spec = spec]

\* the "rgb" decoders: a pixel of one byte and one of three that Pillow
\* does not read, a pixel of two bytes whose rawmode is given to Pillow,
\* which reads it or raises, and a pixel of no byte
RgbDecoders ==
    {[mode |-> "RGB", pixels |-> 2,
      spec |-> <<Field(3, 5), Field(3, 2), Field(2, 0), {}, 3, 3, 2, 0, 8>>],
     [mode |-> "RGBA", pixels |-> 1,
      spec |-> <<Field(7, 17), Field(7, 10), Field(7, 3), Field(3, 0),
                 7, 7, 7, 3, 24>>],
     [mode |-> "RGB", pixels |-> 1, spec |-> OFFICIAL_RGB_SPEC],
     [mode |-> "RGB", pixels |-> 1,
      spec |-> <<{}, {}, {}, {}, 0, 0, 0, 0, 0>>]}

DecInit ==
    /\ decoder \in {NewDecoder(do, target, 2) :
                       do \in {"indexes", "etrle"}, target \in 0..MaxTarget}
                   \cup {NewDecoder("fill", 0, 2)}
                   \cup UNION {{[NewRgbDecoder(r.mode, r.spec, target,
                                               r.pixels)
                                    EXCEPT !.raw_ok = raw_ok] :
                                    raw_ok \in IF SpecToRawmode(r.spec)
                                                      \in DecoderRawmodes
                                               THEN BOOLEAN ELSE {TRUE}} :
                                r \in RgbDecoders, target \in 0..MaxTarget}
    /\ etrle = EtIdle
    /\ colour = ColIdle
    /\ encoder = EncIdle
    /\ loader = LdIdle
    /\ saver = SvIdle
    /\ codec = HdIdle
    /\ flagged = FlIdle
    /\ handler = HnIdle
    /\ truecolor = TcIdle
    /\ pixel = PxIdle

\* decode(buffer) with the next chunk; the chunks count towards arrived up
\* to the step that reaches the target
DecDecode ==
    /\ decoder.pc \in {"init", "more", "done"}
    /\ decoder.runs <= MaxAfterDone
    /\ \E buffer \in Chunks :
          decoder' = [Decode(decoder, buffer) EXCEPT
                         !.arrived = IF decoder.runs = 0
                                     THEN decoder.arrived \o buffer
                                     ELSE decoder.arrived]
    /\ UNCHANGED <<etrle, colour, encoder, loader, saver, codec, flagged, handler, truecolor, pixel>>

DecNext == DecDecode

SpecDecode == DecInit /\ [][DecNext]_vars

---------------------------------------------------------------------------
(* Claims about the streaming decoder.                                     *)

\* C4: while the chunks given so far hold fewer bytes than the target, the
\* step reports that it needs more input, consumes the whole chunk and has
\* every byte given so far in self.data, and the bytes accumulated and the
\* bytes still required add up to the target; the step that reaches or
\* passes the target gives the primitive the first `target` bytes given,
\* in the order they arrived
C4_DecodeAccumulates ==
    /\ (decoder.pc \in {"more", "done", "error"} /\ decoder.runs = 0) =>
          /\ Len(decoder.arrived) < decoder.target
          /\ decoder.pc = "more" /\ decoder.errcode = 0
          /\ decoder.consumed = decoder.chunklen
          /\ decoder.data = decoder.arrived
          /\ Len(decoder.data) + decoder.bytes = decoder.target
    /\ decoder.runs = 1 =>
          /\ Len(decoder.arrived) >= decoder.target
          /\ Len(decoder.arrived) - decoder.chunklen < decoder.target
                 \/ decoder.target = 0
          /\ decoder.errcode = 1 /\ decoder.consumed = -1
          /\ Len(decoder.handed) = decoder.target
          /\ decoder.handed = TakeFirst(decoder.arrived, decoder.target)
    /\ Len(decoder.arrived) < decoder.target => decoder.pc \in {"init", "more"}

\* the target was passed by a chunk two bytes longer than the one byte
\* still required
C4_Witness ==
    /\ decoder.do = "indexes"
    /\ decoder.runs = 1
    /\ decoder.target = MaxTarget
    /\ Len(decoder.arrived) > decoder.target
    /\ decoder.chunklen = MaxChunk
    /\ Len(decoder.arrived) - decoder.chunklen = decoder.target - 1
    /\ decoder.handed = <<1, 129, 0>>

---------------------------------------------------------------------------
(* The headers of an STI file: the layouts of the Ja2FileHeader classes,   *)
(* fields in order, little-endian, padding of zero bytes.  The outer       *)
(* header is kept as a record of its fields with the flags as the set of   *)
(* their one bits; the 20 bytes of its format specific header and every    *)
(* byte after the header are bytes.                                        *)

\* the size of a StiSubImageHeader and of an AuxObjectData
SubImageHeaderSize == 16
AuxObjectDataSize == 16

\* number_of_palette_colors of every file saved
PaletteColors == 256

\* struct.pack of an unsigned integer into n little-endian bytes
RECURSIVE LE(_, _)
LE(v, n) == IF n = 0 THEN <<>> ELSE <<v % 256>> \o LE(v \div 256, n - 1)

\* struct.unpack of an unsigned little-endian integer
RECURSIVE FromLE(_)
FromLE(bytes) ==
    IF bytes = <<>> THEN 0 ELSE bytes[1] + 256 * FromLE(Tail(bytes))

\* the four little-endian bytes of a mask
MaskBytes(S) == [i \in 1..4 |-> ByteAt(S, i - 1)]

\* f.read(n) at position pos: the bytes there are, n at most
Read(data, pos, n) == SubSeq(data, pos + 1, Min(pos + n, Len(data)))

\* sum(lengths[:i])
RECURSIVE SumFirst(_, _)
SumFirst(lengths, i) ==
    IF i = 0 THEN 0 ELSE lengths[i] + SumFirst(lengths, i - 1)

\* HeaderFlagBit with the bits numbered without the gap after bit 0
HeaderFlagBitNoGap ==
    ("AUX_OBJECT_DATA" :> 0) @@ ("RGB" :> 1) @@ ("INDEXED" :> 2)
    @@ ("ZLIB" :> 3) @@ ("ETRLE" :> 4)

\* StiHeader.flags: the bit of each flag
HeaderFlagBit ==
    ("AUX_OBJECT_DATA" :> 0) @@ ("RGB" :> 2) @@ ("INDEXED" :> 3)
    @@ ("ZLIB" :> 4) @@ ("ETRLE" :> 5)

\* AuxObjectData.flags: the bit of each flag
TileFlagBit ==
    ("FULL_TILE" :> 0) @@ ("ANIMATED_TILE" :> 1) @@ ("DYNAMIC_TILE" :> 2)
    @@ ("INTERACTIVE_TILE" :> 3) @@ ("IGNORES_HEIGHT" :> 4)
    @@ ("USES_LAND_Z" :> 5)

\* header.get_flag('flags', name)
GetFlag(header, name) == HeaderFlagBit[name] \in header.flags

\* header.set_flag('flags', name, value)
SetFlag(header, name, value) ==
    [header EXCEPT !.flags = IF value THEN @ \cup {HeaderFlagBit[name]}
                             ELSE @ \ {HeaderFlagBit[name]}]

\* bytes(Sti16BitHeader(...))
Sti16BitHeaderBytes(h) ==
    MaskBytes(h.red_color_mask) \o MaskBytes(h.green_color_mask)
    \o MaskBytes(h.blue_color_mask) \o MaskBytes(h.alpha_channel_mask)
    \o <<h.red_color_depth, h.green_color_depth, h.blue_color_depth,
         h.alpha_channel_depth>>

\* Sti16BitHeader.from_bytes
Sti16BitHeaderFromBytes(b) ==
    [red_color_mask |-> PixelOfBytes(SubSeq(b, 1, 4)),
     green_color_mask |-> PixelOfBytes(SubSeq(b, 5, 8)),
     blue_color_mask |-> PixelOfBytes(SubSeq(b, 9, 12)),
     alpha_channel_mask |-> PixelOfBytes(SubSeq(b, 13, 16)),
     red_color_depth |-> b[17], green_color_depth |-> b[18],
     blue_color_depth |-> b[19], alpha_channel_depth |-> b[20]]

\* bytes(Sti8BitHeader(...))
Sti8BitHeaderBytes(h) ==
    LE(h.number_of_palette_colors, 4) \o LE(h.number_of_images, 2)
    \o <<h.red_color_depth, h.green_color_depth, h.blue_color_depth>>
    \o Repeat(0, 11)

\* Sti8BitHeader.from_bytes
Sti8BitHeaderFromBytes(b) ==
    [number_of_palette_colors |-> FromLE(SubSeq(b, 1, 4)),
     number_of_images |-> FromLE(SubSeq(b, 5, 6)),
     red_color_depth |-> b[7], green_color_depth |-> b[8],
     blue_color_depth |-> b[9]]

\* bytes(StiSubImageHeader(...))
SubImageHeaderBytes(h) ==
    LE(h.offset, 4) \o LE(h.length, 4) \o LE(h.offset_x, 2)
    \o LE(h.offset_y, 2) \o LE(h.height, 2) \o LE(h.width, 2)

\* StiSubImageHeader.from_bytes
SubImageHeaderFromBytes(b) ==
    [offset |-> FromLE(SubSeq(b, 1, 4)), length |-> FromLE(SubSeq(b, 5, 8)),
     offset_x |-> FromLE(SubSeq(b, 9, 10)),
     offset_y |-> FromLE(SubSeq(b, 11, 12)),
     height |-> FromLE(SubSeq(b, 13, 14)),
     width |-> FromLE(SubSeq(b, 15, 16))]

\* bytes(AuxObjectData(...)); flags is the set of the one bits
AuxObjectDataBytes(a) ==
    <<a.wall_orientation, a.number_of_tiles>> \o LE(a.tile_location_index, 2)
    \o Repeat(0, 3)
    \o <<a.current_frame, a.number_of_frames, Value(a.flags)>>
    \o Repeat(0, 6)

\* AuxObjectData.from_bytes
AuxObjectDataFromBytes(b) ==
    [wall_orientation |-> b[1], number_of_tiles |-> b[2],
     tile_location_index |-> FromLE(SubSeq(b, 3, 4)),
     current_frame |-> b[8], number_of_frames |-> b[9],
     flags |-> ByteBits(b[10])]

\* AuxObjectData(): every field 0
DefaultAuxObjectData ==
    [wall_orientation |-> 0, number_of_tiles |-> 0, tile_location_index |-> 0,
     current_frame |-> 0, number_of_frames |-> 0, flags |-> {}]

\* the size of a StiHeader and of a format specific header
StiHeaderSize == 64
FormatHeaderSize == 20

\* StiHeaderBytes with width written before height
StiHeaderBytesWidthFirst(h) ==
    h.file_identifier \o LE(h.initial_size, 4)
    \o LE(h.size_after_compression, 4) \o LE(h.transparent_color, 4)
    \o MaskBytes(h.flags) \o LE(h.width, 2) \o LE(h.height, 2)
    \o h.format_specific_header \o <<h.color_depth>> \o Repeat(0, 3)
    \o LE(h.aux_data_size, 4) \o Repeat(0, 12)

\* bytes(StiHeader(...)); file_identifier and format_specific_header are
\* the bytes of their strings and flags is the set of the one bits
StiHeaderBytes(h) ==
    h.file_identifier \o LE(h.initial_size, 4)
    \o LE(h.size_after_compression, 4) \o LE(h.transparent_color, 4)
    \o MaskBytes(h.flags) \o LE(h.height, 2) \o LE(h.width, 2)
    \o h.format_specific_header \o <<h.color_depth>> \o Repeat(0, 3)
    \o LE(h.aux_data_size, 4) \o Repeat(0, 12)

\* StiHeader.from_bytes
StiHeaderFromBytes(b) ==
    [file_identifier |-> SubSeq(b, 1, 4),
     initial_size |-> FromLE(SubSeq(b, 5, 8)),
     size_after_compression |-> FromLE(SubSeq(b, 9, 12)),
     transparent_color |-> FromLE(SubSeq(b, 13, 16)),
     flags |-> PixelOfBytes(SubSeq(b, 17, 20)),
     height |-> FromLE(SubSeq(b, 21, 22)),
     width |-> FromLE(SubSeq(b, 23, 24)),
     format_specific_header |-> SubSeq(b, 25, 24 + FormatHeaderSize),
     color_depth |-> b[45],
     aux_data_size |-> FromLE(SubSeq(b, 49, 52))]

\* the header classes
HeaderLayouts ==
    {"StiHeader", "Sti16BitHeader", "Sti8BitHeader", "StiSubImageHeader",
     "AuxObjectData"}

\* cls.get_size()
GetSize(layout) ==
    CASE layout = "StiHeader" -> StiHeaderSize
      [] layout = "Sti16BitHeader" -> FormatHeaderSize
      [] layout = "Sti8BitHeader" -> FormatHeaderSize
      [] layout = "StiSubImageHeader" -> SubImageHeaderSize
      [] layout = "AuxObjectData" -> AuxObjectDataSize

\* bytes(header) of a header of the class
HeaderBytes(layout, fields) ==
    CASE layout = "StiHeader" -> StiHeaderBytes(fields)
      [] layout = "Sti16BitHeader" -> Sti16BitHeaderBytes(fields)
      [] layout = "Sti8BitHeader" -> Sti8BitHeaderBytes(fields)
      [] layout = "StiSubImageHeader" -> SubImageHeaderBytes(fields)
      [] layout = "AuxObjectData" -> AuxObjectDataBytes(fields)

\* cls.from_bytes(b): [ok, fields]; it fails when b has fewer bytes than
\* the class's size and ignores the bytes after them
HeaderFromBytes(layout, b) ==
    IF Len(b) < GetSize(layout) THEN [ok |-> FALSE, fields |-> <<>>]
    ELSE [ok |-> TRUE,
          fields |->
            CASE layout = "StiHeader" -> StiHeaderFromBytes(b)
              [] layout = "Sti16BitHeader" -> Sti16BitHeaderFromBytes(b)
              [] layout = "Sti8BitHeader" -> Sti8BitHeaderFromBytes(b)
              [] layout = "StiSubImageHeader" -> SubImageHeaderFromBytes(b)
              [] layout = "AuxObjectData" -> AuxObjectDataFromBytes(b)]

---------------------------------------------------------------------------
(* Sub-images and their tile metadata as the callers hold them.  The       *)
(* aux_data of a sub-image is a record of the five numbers and the set of  *)
(* the tile flags that are true; `has` is FALSE for None.                  *)

NoAuxData ==
    [has |-> FALSE, wall_orientation |-> 0, number_of_tiles |-> 0,
     tile_location_index |-> 0, current_frame |-> 0, number_of_frames |-> 0,
     flags |-> {}]

\* the aux_data dictionary that _to_sub_image makes of an AuxObjectData
AuxDataOf(a) ==
    [has |-> TRUE, wall_orientation |-> a.wall_orientation,
     number_of_tiles |-> a.number_of_tiles,
     tile_location_index |-> a.tile_location_index,
     current_frame |-> a.current_frame,
     number_of_frames |-> a.number_of_frames,
     flags |-> {name \in DOMAIN TileFlagBit : TileFlagBit[name] \in a.flags}]

\* the AuxObjectData that save_8bit_sti makes of an aux_data dictionary:
\* flags=0, then set_flag for each of the six names
AuxObjectDataOf(aux) ==
    [wall_orientation |-> aux.wall_orientation,
     number_of_tiles |-> aux.number_of_tiles,
     tile_location_index |-> aux.tile_location_index,
     current_frame |-> aux.current_frame,
     number_of_frames |-> aux.number_of_frames,
     flags |-> {TileFlagBit[name] : name \in aux.flags}]

\* line y (from 0) of a sub-image
SubImageRow(sub, y) == SubSeq(sub.pixels, y * sub.width + 1, (y + 1) * sub.width)

\* etrle_compress(line): the runs of a line without the end-of-line byte
EtrleCompress(line) == EncodeRuns(line)

\* _sub_image_to_bytes
SubImageToBytes(sub) ==
    Join([y \in 1..sub.height |-> EtrleCompress(SubImageRow(sub, y - 1)) \o <<0>>])

\* img.tobytes('STCI', 'etrle'): the ETRLE encoder run to its end
EtrleToBytes(sub) ==
    Join([y \in 1..sub.height |-> EncodeLine(SubImageRow(sub, y - 1))])

\* _palette_to_bytes(palette).ljust(256 * 3, b'\x00'): (r, g, b) of every
\* colour of the palette, then zeros up to 256 colours
PaletteBytes(palette) ==
    [i \in 1..(3 * Max(PaletteColors, Len(palette))) |->
        IF (i - 1) \div 3 < Len(palette)
        THEN palette[((i - 1) \div 3) + 1][((i - 1) % 3) + 1] ELSE 0]

---------------------------------------------------------------------------
(* The save entry points.  A save gives [kind, file]: kind is "file" and   *)
(* file the header and the bytes written after it, or kind is the error    *)
(* raised.                                                                  *)

NoFile == [header |-> <<>>, data |-> <<>>]

SaveRaised(kind) == [kind |-> kind, file |-> NoFile]

\* save_16bit_sti(ja2_image, file); image is [width, height, pixels]
Save16BitSti(image) ==
    LET image_size == image.width * image.height * 2
        format_specific_header ==
            Sti16BitHeaderBytes(
                [red_color_mask |-> Field(5, 11), green_color_mask |-> Field(6, 5),
                 blue_color_mask |-> Field(5, 0), alpha_channel_mask |-> {},
                 red_color_depth |-> 5, green_color_depth |-> 6,
                 blue_color_depth |-> 5, alpha_channel_depth |-> 0])
        header ==
            SetFlag([file_identifier |-> "STCI", initial_size |-> image_size,
                     size_after_compression |-> image_size,
                     transparent_color |-> 0, flags |-> {},
                     height |-> image.height, width |-> image.width,
                     format_specific_header |-> format_specific_header,
                     color_depth |-> 16, aux_data_size |-> 0], "RGB", TRUE)
        Short(pix) == LE((pix[3] \div 8) + (pix[2] \div 8) * 64
                         + (pix[1] \div 8) * 2048, 2)
    IN  [kind |-> "file",
         file |-> [header |-> header,
                   data |-> Join([k \in 1..Len(image.pixels) |->
                                     Short(image.pixels[k])])]]

\* bytes(StiSubImageHeader(...)) has room for the fields of two bytes
ShortsFit(h) ==
    \A v \in {h.offset_x, h.offset_y, h.height, h.width} :
        v >= 0 /\ v <= 65535

\* bytes(AuxObjectData(...)) has room for the fields of one and of two
\* bytes
AuxFits(a) ==
    /\ \A v \in {a.wall_orientation, a.number_of_tiles, a.current_frame,
                  a.number_of_frames} : v >= 0 /\ v <= 255
    /\ a.tile_location_index >= 0 /\ a.tile_location_index <= 65535

\* save_8bit_sti(ja2_images, file); images is [images, palette, width,
\* height] and a sub-image [width, height, pixels, offsets, aux_data].
\* The header is written first; when a descriptor or a metadata record
\* does not fit its fields the file holds what was written before it
Save8BitSti(images) ==
    LET subs == images.images
        n == Len(subs)
        aux_data == SelectSeq(subs, LAMBDA sub : sub.aux_data.has)
        compressed_images == [i \in 1..n |-> SubImageToBytes(subs[i])]
        compressed_image_sizes == [i \in 1..n |-> Len(compressed_images[i])]
        sub_image_headers ==
            [i \in 1..n |->
                [offset |-> SumFirst(compressed_image_sizes, i - 1),
                 length |-> compressed_image_sizes[i],
                 offset_x |-> subs[i].offsets[1],
                 offset_y |-> subs[i].offsets[2],
                 height |-> subs[i].height, width |-> subs[i].width]]
        format_specific_header ==
            Sti8BitHeaderBytes(
                [number_of_palette_colors |-> PaletteColors,
                 number_of_images |-> n, red_color_depth |-> 8,
                 green_color_depth |-> 8, blue_color_depth |-> 8])
        header ==
            SetFlag(SetFlag(
                [file_identifier |-> "STCI",
                 initial_size |-> images.width * images.height,
                 size_after_compression |-> SumFirst(compressed_image_sizes, n),
                 transparent_color |-> 0, flags |-> {},
                 height |-> images.height, width |-> images.width,
                 format_specific_header |-> format_specific_header,
                 color_depth |-> 8,
                 aux_data_size |-> Len(aux_data) * AuxObjectDataSize],
                "INDEXED", TRUE), "ETRLE", TRUE)
        overflow == {i \in 1..n : ~ShortsFit(sub_image_headers[i])}
        aux_overflow == {i \in 1..Len(aux_data) :
                            ~AuxFits(AuxObjectDataOf(aux_data[i].aux_data))}
    IN  IF Len(aux_data) # 0 /\ Len(aux_data) # n
        THEN SaveRaised("ValueError")
        ELSE IF images.width > 65535 \/ images.height > 65535
        THEN SaveRaised("FieldOverflow")
        ELSE IF overflow # {}
        THEN [kind |-> "FieldOverflow",
              file |-> [header |-> header,
                        data |-> PaletteBytes(images.palette)
                                 \o Join([i \in 1..(MinOf(overflow) - 1) |->
                                     SubImageHeaderBytes(sub_image_headers[i])])]]
        ELSE IF aux_overflow # {}
        THEN [kind |-> "FieldOverflow",
              file |-> [header |-> header,
                        data |-> PaletteBytes(images.palette)
                                 \o Join([i \in 1..n |->
                                     SubImageHeaderBytes(sub_image_headers[i])])
                                 \o Join(compressed_images)
                                 \o Join([i \in 1..(MinOf(aux_overflow) - 1) |->
                                     AuxObjectDataBytes(
                                         AuxObjectDataOf(aux_data[i].aux_data))])]]
        ELSE [kind |-> "file",
              file |-> [header |-> header,
                        data |-> PaletteBytes(images.palette)
                                 \o Join([i \in 1..n |->
                                     SubImageHeaderBytes(sub_image_headers[i])])
                                 \o Join(compressed_images)
                                 \o Join([i \in 1..Len(aux_data) |->
                                     AuxObjectDataBytes(
                                         AuxObjectDataOf(aux_data[i].aux_data))])]]

\* validate_flags(flags), flags a set of names of StiHeader flags
ValidateFlags(flags) == ("RGB" \in flags) # ("INDEXED" \in flags)

\* the pixels of img.convert(mode) as (r, g, b, a): an image of palette
\* indexes through the palette, every pixel opaque; an image of colours has
\* PixelColor of its pixel with its own alpha.  A sub-image that has no
\* mode is an image of palette indexes
ConvertedPixels(images, img) ==
    [k \in 1..Len(img.pixels) |->
        IF "mode" \notin DOMAIN img \/ img.mode = "P"
        THEN images.palette[img.pixels[k] + 1] \o <<255>>
        ELSE SubSeq(PixelColor(img.pixels[k]), 1, 3) \o <<img.alpha[k]>>]

\* the colour that the loop over img.convert('RGBA').getdata() asks the
\* palette for: color[:3] of a pixel; a pixel whose alpha is 0 asks for
\* none and gets index 0, as the transparent colour does
AskedColor(color) ==
    IF color[4] = 0 THEN <<0, 0, 0>> ELSE SubSeq(color, 1, 3)

\* the colours asked for the pixels of the images, in order
PixelColors(images) ==
    Join([i \in 1..Len(images.images) |->
             [k \in 1..Len(images.images[i].pixels) |->
                 AskedColor(ConvertedPixels(images, images.images[i])[k])]])

\* palette.getcolor of each colour in turn: the colours in the order in
\* which they got their indexes, and the ValueError of the colour that
\* finds every index taken
GetColors(colors, todo) ==
    LET fresh == SelectSeq([k \in 1..Len(todo) |-> k],
                           LAMBDA k :
                               /\ \A i \in 1..Len(colors) : colors[i] # todo[k]
                               /\ \A j \in 1..(k - 1) : todo[j] # todo[k])
        all == colors \o [i \in 1..Len(fresh) |-> todo[fresh[i]]]
    IN  [err |-> IF Len(all) > PaletteColors THEN "ValueError" ELSE "none",
         colors |-> SubSeq(all, 1, Min(Len(all), PaletteColors))]

\* the shared palette of _save_etrle_images: the transparent colour gets
\* index 0, which the code asserts
SharedPalette(images) ==
    GetColors(<<<<0, 0, 0>>>>, PixelColors(images)).colors

\* palette.getcolor(rgb) of a colour that has an index
GetColor(colors, rgb) == (CHOOSE i \in 1..Len(colors) : colors[i] = rgb) - 1

\* the indexes of a sub-image in the shared palette
Indexed(images, sub) ==
    [sub EXCEPT !.pixels =
        [k \in 1..Len(sub.pixels) |->
            GetColor(SharedPalette(images),
                     AskedColor(ConvertedPixels(images, sub)[k]))]]

\* palette_colors: the bands of the shared palette as (r, g, b) triples;
\* an index that no colour got keeps the grey that ImagePalette() starts
\* with
SharedPaletteBytes(colors) ==
    [i \in 1..(3 * PaletteColors) |->
        IF (i - 1) \div 3 < Len(colors)
        THEN colors[((i - 1) \div 3) + 1][((i - 1) % 3) + 1]
        ELSE (i - 1) \div 3]

\* StiImagePlugin._save_etrle_images(img, fd) for images of palette
\* indexes, with the offsets and the aux_object_data of encoderinfo taken
\* from the sub-images.  When a descriptor does not fit its fields the
\* file holds what was written before it: nothing at the place of the
\* header, then the palette and the descriptors before the failing one;
\* when a metadata record does not fit, the palette, the descriptors and
\* the images
SaveEtrleImages(images, flags) ==
    LET subs == images.images
        num_images == Len(subs)
        indexed == [i \in 1..num_images |-> Indexed(images, subs[i])]
        data == [i \in 1..num_images |-> EtrleToBytes(indexed[i])]
        lengths == [i \in 1..num_images |-> Len(data[i])]
        subimage_headers ==
            [i \in 1..num_images |->
                [offset |-> SumFirst(lengths, i - 1), length |-> lengths[i],
                 offset_x |-> subs[i].offsets[1],
                 offset_y |-> subs[i].offsets[2],
                 height |-> subs[i].height, width |-> subs[i].width]]
        aux == IF "AUX_OBJECT_DATA" \in flags
               THEN Join([i \in 1..num_images |->
                            AuxObjectDataBytes(
                                IF subs[i].aux_data.has
                                THEN AuxObjectDataOf(subs[i].aux_data)
                                ELSE DefaultAuxObjectData)])
               ELSE <<>>
        indexed_header ==
            Sti8BitHeaderBytes(
                [number_of_palette_colors |-> PaletteColors,
                 number_of_images |-> num_images, red_color_depth |-> 8,
                 green_color_depth |-> 8, blue_color_depth |-> 8])
        header ==
            [file_identifier |-> "STCI",
             initial_size |-> SumFirst([i \in 1..num_images |->
                                           Len(indexed[i].pixels)], num_images),
             size_after_compression |-> SumFirst(lengths, num_images),
             transparent_color |-> 0,
             flags |-> {HeaderFlagBit[flag] : flag \in flags},
             height |-> subs[num_images].height,
             width |-> subs[num_images].width,
             format_specific_header |-> indexed_header,
             color_depth |-> 8, aux_data_size |-> Len(aux)]
        overflow == {i \in 1..num_images : ~ShortsFit(subimage_headers[i])}
    IN  IF ~ValidateFlags(flags) \/ "INDEXED" \notin flags
           \/ "ETRLE" \notin flags \/ "RGB" \in flags \/ "ZLIB" \in flags
        THEN SaveRaised("AssertionError")
        ELSE IF GetColors(<<<<0, 0, 0>>>>, PixelColors(images)).err # "none"
        THEN SaveRaised(GetColors(<<<<0, 0, 0>>>>, PixelColors(images)).err)
        ELSE IF overflow # {}
        THEN [kind |-> "FieldOverflow",
              file |-> [header |-> <<>>,
                        data |-> SharedPaletteBytes(SharedPalette(images))
                                 \o Join([i \in 1..(MinOf(overflow) - 1) |->
                                     SubImageHeaderBytes(subimage_headers[i])])]]
        ELSE IF "AUX_OBJECT_DATA" \in flags
                /\ \E i \in 1..num_images :
                       /\ subs[i].aux_data.has
                       /\ ~AuxFits(AuxObjectDataOf(subs[i].aux_data))
        THEN [kind |-> "FieldOverflow",
              file |-> [header |-> <<>>,
                        data |-> SharedPaletteBytes(SharedPalette(images))
                                 \o Join([i \in 1..num_images |->
                                     SubImageHeaderBytes(subimage_headers[i])])
                                 \o Join(data)]]
        ELSE [kind |-> "file",
              file |-> [header |-> header,
                        data |-> SharedPaletteBytes(SharedPalette(images))
                                 \o Join([i \in 1..num_images |->
                                     SubImageHeaderBytes(subimage_headers[i])])
                                 \o Join(data) \o aux]]

\* StiImagePlugin._save_indexes_image(img, fd) for the image of a sub-image
\* and its palette; transparent is encoderinfo.get('transparent', 0), an
\* integer
SaveIndexesImage(images, flags, transparent) ==
    LET sub == images.images[1]
        encoded == EncodeToPyfd(NewEncoder("indexes", <<>>, sub.width,
                                           sub.height, sub.pixels), 0, <<>>)
        data == encoded.written
        indexed_header ==
            Sti8BitHeaderBytes(
                [number_of_palette_colors |-> PaletteColors,
                 number_of_images |-> 0, red_color_depth |-> 8,
                 green_color_depth |-> 8, blue_color_depth |-> 8])
        header ==
            [file_identifier |-> "STCI",
             initial_size |-> encoded.total_bytes,
             size_after_compression |-> encoded.total_bytes,
             transparent_color |-> transparent,
             flags |-> {HeaderFlagBit[flag] : flag \in flags},
             height |-> sub.height, width |-> sub.width,
             format_specific_header |-> indexed_header,
             color_depth |-> 8, aux_data_size |-> 0]
    IN  IF ~ValidateFlags(flags) \/ "INDEXED" \notin flags
           \/ "ETRLE" \in flags \/ "RGB" \in flags \/ "ZLIB" \in flags
           \/ "AUX_OBJECT_DATA" \in flags
        THEN SaveRaised("AssertionError")
        ELSE IF Len(images.palette) # PaletteColors
        THEN SaveRaised("AssertionError")
        ELSE IF encoded.errcode < 0
        THEN [kind |-> "IOError",
              file |-> [header |-> <<>>,
                        data |-> PaletteBytes(images.palette) \o data]]
        ELSE [kind |-> "file",
              file |-> [header |-> header,
                        data |-> PaletteBytes(images.palette) \o data]]

---------------------------------------------------------------------------
(* The save handlers of the plugin.  The image given to Image.save and the *)
(* append_images are the sub-images of one record; a sub-image has a mode  *)
(* and the alpha of each pixel besides its pixels, which are palette      *)
(* indexes in mode P and colours of PixelColor otherwise.  encoderinfo is  *)
(* [flags, spec, semi_transparent, transparent]; flags, spec and           *)
(* transparent have `has` FALSE when the caller gave none.  A failed save  *)
(* gives the error raised and, as the data of its file, the bytes it had   *)
(* written.                                                                *)

\* the elements of a list
Range(list) == {list[i] : i \in 1..Len(list)}

\* validate_flags(flags)
ValidateFlagsList(flags) ==
    /\ ("RGB" \in Range(flags)) # ("INDEXED" \in Range(flags))
    /\ \A i \in 1..Len(flags) : flags[i] \in DOMAIN HeaderFlagBit
    /\ Cardinality(Range(flags)) = Len(flags)

\* the asserts of _save_colors_image with ZLIB let through
ColorsAssertsZlib(flags) ==
    /\ "RGB" \in Range(flags) /\ "INDEXED" \notin Range(flags)
    /\ "ETRLE" \notin Range(flags)
    /\ "AUX_OBJECT_DATA" \notin Range(flags)

\* the asserts of _save_colors_image on the flags
ColorsAsserts(flags) ==
    /\ "RGB" \in Range(flags) /\ "INDEXED" \notin Range(flags)
    /\ "ETRLE" \notin Range(flags) /\ "ZLIB" \notin Range(flags)
    /\ "AUX_OBJECT_DATA" \notin Range(flags)

\* for flag in flags: header.set_flag('flags', flag, True)
RECURSIVE SetFlags(_, _)
SetFlags(header, flags) ==
    IF flags = <<>> THEN header
    ELSE SetFlags(SetFlag(header, flags[1], TRUE), Tail(flags))

\* StiImagePlugin._save_colors_image(img, fd); the header is written after
\* the pixels, and a negative errcode of the encoder raises IOError first
SaveColorsImage(images, info) ==
    LET img == images.images[1]
        flags == info.flags.list
        spec == IF info.spec.has THEN info.spec.spec ELSE OFFICIAL_RGB_SPEC
        encoded == EncodeToPyfd(NewEncoder("colors", spec, img.width,
                                           img.height,
                                           ConvertedPixels(images, img)),
                                0, <<>>)
        rgb_header ==
            Sti16BitHeaderBytes(
                [red_color_mask |-> spec[1], green_color_mask |-> spec[2],
                 blue_color_mask |-> spec[3], alpha_channel_mask |-> spec[4],
                 red_color_depth |-> spec[5], green_color_depth |-> spec[6],
                 blue_color_depth |-> spec[7], alpha_channel_depth |-> spec[8]])
        header ==
            SetFlags([file_identifier |-> "STCI",
                      initial_size |-> encoded.total_bytes,
                      size_after_compression |-> encoded.total_bytes,
                      transparent_color |-> 0, flags |-> {},
                      height |-> img.height, width |-> img.width,
                      format_specific_header |-> rgb_header,
                      color_depth |-> spec[9], aux_data_size |-> 0], flags)
    IN  IF ~ValidateFlagsList(flags) \/ ~ColorsAsserts(flags)
        THEN SaveRaised("AssertionError")
        ELSE IF ValidateSpec(spec) # "ok" THEN SaveRaised(ValidateSpec(spec))
        ELSE IF encoded.raised # "none"
        THEN [kind |-> encoded.raised,
              file |-> [header |-> <<>>, data |-> encoded.written]]
        ELSE IF encoded.errcode < 0
        THEN [kind |-> "IOError",
              file |-> [header |-> <<>>, data |-> encoded.written]]
        ELSE [kind |-> "file",
              file |-> [header |-> header, data |-> encoded.written]]

\* _save_indexes_image(img, fd) of the handlers: the mode of the image is
\* asserted after the flags
SaveIndexesImageOf(images, info) ==
    LET saved == SaveIndexesImage(images, Range(info.flags.list),
                                  IF info.transparent.has
                                  THEN info.transparent.index ELSE 0)
    IN  IF ~ValidateFlagsList(info.flags.list) THEN SaveRaised("AssertionError")
        ELSE IF saved.kind = "file" /\ images.images[1].mode # "P"
        THEN SaveRaised("AssertionError")
        ELSE saved

\* the alpha of a pixel after the semi_transparent choice
AlphaOf(a, semi_transparent) ==
    IF a = 0 \/ a = 255 THEN a
    ELSE IF semi_transparent = "transparent" THEN 0
    ELSE IF semi_transparent = "opaque" THEN 255
    ELSE a

\* the sub-images with the alpha that the loop over img.getdata() gives
\* their pixels
Flattened(images, semi_transparent) ==
    [images EXCEPT !.images =
        [i \in 1..Len(images.images) |->
            [images.images[i] EXCEPT !.alpha =
                [k \in 1..Len(images.images[i].pixels) |->
                    AlphaOf(ConvertedPixels(images, images.images[i])[k][4],
                            semi_transparent)]]]]

\* _save_etrle_images(img, fd) of the handlers: images with alpha and the
\* semi_transparent of encoderinfo; a transparent that is a palette index
\* has no len()
SaveEtrleImagesOf(images, info) ==
    LET saved == SaveEtrleImages(Flattened(images, info.semi_transparent),
                                 Range(info.flags.list))
    IN  IF ~ValidateFlagsList(info.flags.list) THEN SaveRaised("AssertionError")
        ELSE IF saved.kind = "AssertionError" THEN saved
        ELSE IF info.transparent.has THEN SaveRaised("TypeError")
        ELSE IF \E i \in 1..Len(images.images) :
                    \E k \in 1..Len(images.images[i].pixels) :
                        AlphaOf(ConvertedPixels(images, images.images[i])[k][4],
                                info.semi_transparent) \notin {0, 255}
        THEN SaveRaised("ValueError")
        ELSE saved

\* StiImagePlugin._save_handler(img, fd, filename)
SaveHandler(images, info) ==
    LET flags == IF info.flags.has THEN info.flags.list ELSE <<"RGB">>
        given == [info EXCEPT !.flags = [has |-> TRUE, list |-> flags]]
    IN  IF ~ValidateFlagsList(flags) THEN SaveRaised("AssertionError")
        ELSE IF "RGB" \in Range(flags) THEN SaveColorsImage(images, given)
        ELSE IF "INDEXED" \in Range(flags)
        THEN IF "ETRLE" \in Range(flags)
             THEN SaveEtrleImagesOf(images, given)
             ELSE SaveIndexesImageOf(images, given)
        ELSE SaveRaised("NotImplementedError")

\* StiImagePlugin._save_all_handler(img, fd, filename)
SaveAllHandler(images, info) ==
    LET flags == IF info.flags.has THEN info.flags.list
                 ELSE <<"INDEXED", "ETRLE">>
        given == [info EXCEPT !.flags = [has |-> TRUE, list |-> flags]]
    IN  IF ~ValidateFlagsList(flags) THEN SaveRaised("AssertionError")
        ELSE IF Len(images.images) > 1 THEN SaveEtrleImagesOf(images, given)
        ELSE SaveHandler(images, given)

---------------------------------------------------------------------------
(* The load entry points.  A load gives [entry, kind, mode, size, boxes,   *)
(* frames, pixels]: kind is "image" or the error raised; a frame is        *)
(* [width, height, offsets, pixels, aux_data].                             *)

Raised(entry, kind) ==
    [entry |-> entry, kind |-> kind, mode |-> "", size |-> <<0, 0>>,
     boxes |-> <<>>, frames |-> <<>>, pixels |-> <<>>]

\* is_16bit_sti
Is16BitSti(file) ==
    /\ file.header.file_identifier = "STCI"
    /\ GetFlag(file.header, "RGB") /\ ~GetFlag(file.header, "INDEXED")

\* is_8bit_sti
Is8BitSti(file) ==
    /\ file.header.file_identifier = "STCI"
    /\ GetFlag(file.header, "INDEXED") /\ ~GetFlag(file.header, "RGB")

\* load_16bit_sti(file)
Load16BitSti(file) ==
    LET header == file.header
        header_16bit == Sti16BitHeaderFromBytes(header.format_specific_header)
        number_of_pixels == header.width * header.height
        pixel_short(k) == PixelOfBytes(Read(file.data, 2 * (k - 1), 2))
        r(k) == Value(ShiftRight(pixel_short(k) \cap header_16bit.red_color_mask, 8))
        g(k) == Value(ShiftRight(pixel_short(k) \cap header_16bit.green_color_mask, 3))
        b(k) == Value(ShiftLeft(pixel_short(k) \cap header_16bit.blue_color_mask, 3))
    IN  IF ~Is16BitSti(file) THEN Raised("load_16bit_sti", "ValueError")
        ELSE IF Len(file.data) < 2 * number_of_pixels
        THEN Raised("load_16bit_sti", "struct.error")
        ELSE IF \E k \in 1..number_of_pixels :
                    r(k) > 255 \/ g(k) > 255 \/ b(k) > 255
        THEN Raised("load_16bit_sti", "struct.error")
        ELSE [entry |-> "load_16bit_sti", kind |-> "image", mode |-> "RGB",
              size |-> <<header.width, header.height>>, boxes |-> <<>>,
              frames |-> <<>>,
              pixels |-> [k \in 1..number_of_pixels |-> <<r(k), g(k), b(k)>>]]

\* load_8bit_sti(file)
Load8BitSti(file) ==
    LET header == file.header
        data == file.data
        header_8bit == Sti8BitHeaderFromBytes(header.format_specific_header)
        n == header_8bit.number_of_images
        headers_at == 3 * header_8bit.number_of_palette_colors
        images_at == headers_at + n * SubImageHeaderSize
        sub_image_headers ==
            [i \in 1..n |->
                SubImageHeaderFromBytes(
                    Read(data, headers_at + (i - 1) * SubImageHeaderSize,
                         SubImageHeaderSize))]
        lengths == [i \in 1..n |-> sub_image_headers[i].length]
        uncompressed(i) ==
            EtrleDecompress(Read(data, images_at + SumFirst(lengths, i - 1),
                                 lengths[i]))
        WrongImage(i) ==
            \/ ~uncompressed(i).ok
            \/ Len(uncompressed(i).data) <
                   sub_image_headers[i].width * sub_image_headers[i].height
        aux_at == images_at + SumFirst(lengths, n)
        has_aux == header.aux_data_size # 0
        aux_image_data(i) ==
            AuxObjectDataFromBytes(
                Read(data, aux_at + (i - 1) * AuxObjectDataSize, AuxObjectDataSize))
    IN  IF ~Is8BitSti(file) THEN Raised("load_8bit_sti", "ValueError")
        ELSE IF Len(data) < headers_at
        THEN Raised("load_8bit_sti", "struct.error")
        ELSE IF Len(data) < images_at
        THEN Raised("load_8bit_sti", "TruncatedInput")
        ELSE IF \E i \in 1..n : WrongImage(i)
        THEN Raised("load_8bit_sti",
                    IF uncompressed(MinOf({i \in 1..n : WrongImage(i)})).ok
                    THEN "ValueError" ELSE "MalformedRun")
        ELSE IF has_aux /\ Len(data) < aux_at + n * AuxObjectDataSize
        THEN Raised("load_8bit_sti", "TruncatedInput")
        ELSE [entry |-> "load_8bit_sti", kind |-> "image", mode |-> "P",
              size |-> <<header.width, header.height>>, boxes |-> <<>>,
              frames |->
                 [i \in 1..n |->
                     [width |-> sub_image_headers[i].width,
                      height |-> sub_image_headers[i].height,
                      offsets |-> <<sub_image_headers[i].offset_x,
                                    sub_image_headers[i].offset_y>>,
                      pixels |-> TakeFirst(uncompressed(i).data,
                                           sub_image_headers[i].width
                                           * sub_image_headers[i].height),
                      aux_data |-> IF has_aux THEN AuxDataOf(aux_image_data(i))
                                   ELSE NoAuxData]],
              pixels |-> <<>>]

\* the left edge of box i of _generate_boxes
RECURSIVE BoxLeft(_, _)
BoxLeft(subimage_headers, i) ==
    IF i = 1 THEN 0
    ELSE LET width == BoxLeft(subimage_headers, i - 1)
                      + subimage_headers[i - 1].width
         IN  IF width > 0 THEN width + 1 ELSE width

\* StiImagePlugin._generate_boxes: the boxes and the size of the image
GenerateBoxes(subimage_headers) ==
    LET n == Len(subimage_headers)
    IN  [boxes |-> [i \in 1..n |->
                       <<BoxLeft(subimage_headers, i), 0,
                         BoxLeft(subimage_headers, i) + subimage_headers[i].width,
                         subimage_headers[i].height>>],
         size |-> <<BoxLeft(subimage_headers, n) + subimage_headers[n].width,
                    LET heights == {subimage_headers[i].height : i \in 1..n}
                    IN  CHOOSE h \in heights : \A k \in heights : k <= h>>]

\* StiImagePlugin._open
Open(file) ==
    LET header == file.header
        data == file.data
        rgb_header == Sti16BitHeaderFromBytes(header.format_specific_header)
        indexed_header == Sti8BitHeaderFromBytes(header.format_specific_header)
        num_bytes == indexed_header.number_of_palette_colors * 3
        num_images == indexed_header.number_of_images
        subimage_headers ==
            [i \in 1..num_images |->
                SubImageHeaderFromBytes(
                    Read(data, num_bytes + (i - 1) * SubImageHeaderSize,
                         SubImageHeaderSize))]
        offset == num_bytes + num_images * SubImageHeaderSize
        aux_at == offset + header.size_after_compression
        aux_object_data(i) ==
            AuxObjectDataFromBytes(
                Read(data, aux_at + (i - 1) * AuxObjectDataSize, AuxObjectDataSize))
        Frames(has_aux) ==
            [i \in 1..num_images |->
                [width |-> subimage_headers[i].width,
                 height |-> subimage_headers[i].height,
                 offsets |-> <<subimage_headers[i].offset_x,
                               subimage_headers[i].offset_y>>,
                 pixels |-> <<>>,
                 aux_data |-> IF has_aux THEN AuxDataOf(aux_object_data(i))
                              ELSE NoAuxData]]
        Opened(mode, size, boxes, frames) ==
            [entry |-> "_open", kind |-> "image", mode |-> mode, size |-> size,
             boxes |-> boxes, frames |-> frames, pixels |-> <<>>]
    IN  IF header.file_identifier # "STCI" THEN Raised("_open", "SyntaxError")
        ELSE IF GetFlag(header, "ZLIB") THEN Raised("_open", "AssertionError")
        ELSE IF GetFlag(header, "RGB")
        THEN IF GetFlag(header, "INDEXED") \/ GetFlag(header, "AUX_OBJECT_DATA")
             THEN Raised("_open", "AssertionError")
             ELSE Opened(IF rgb_header.alpha_channel_mask = {}
                         THEN "RGB" ELSE "RGBA",
                         <<header.width, header.height>>,
                         <<<<0, 0, header.width, header.height>>>>, <<>>)
        ELSE IF GetFlag(header, "INDEXED")
        THEN IF \/ indexed_header.number_of_palette_colors # PaletteColors
                \/ indexed_header.red_color_depth # 8
                \/ indexed_header.green_color_depth # 8
                \/ indexed_header.blue_color_depth # 8
             THEN Raised("_open", "AssertionError")
             ELSE IF Len(data) < num_bytes THEN Raised("_open", "struct.error")
             ELSE IF GetFlag(header, "ETRLE")
             THEN IF num_images = 0 THEN Raised("_open", "AssertionError")
                  ELSE IF Len(data) < offset
                  THEN Raised("_open", "TruncatedInput")
                  ELSE IF GetFlag(header, "AUX_OBJECT_DATA")
                  THEN IF Len(data) < aux_at + num_images * AuxObjectDataSize
                       THEN Raised("_open", "TruncatedInput")
                       ELSE Opened("P", GenerateBoxes(subimage_headers).size,
                                   GenerateBoxes(subimage_headers).boxes,
                                   Frames(TRUE))
                  ELSE Opened("P", GenerateBoxes(subimage_headers).size,
                              GenerateBoxes(subimage_headers).boxes,
                              Frames(FALSE))
             ELSE IF GetFlag(header, "AUX_OBJECT_DATA")
             THEN Raised("_open", "AssertionError")
             ELSE Opened("P", <<header.width, header.height>>, <<>>, <<>>)
        ELSE Raised("_open", "SyntaxError")

\* the palette load_8bit_sti takes from the palette block: colour i is the
\* three bytes read at 3 * i
PaletteColorsRead(file) ==
    [i \in 1..Sti8BitHeaderFromBytes(file.header.format_specific_header)
                  .number_of_palette_colors |->
        Read(file.data, 3 * (i - 1), 3)]

\* the palette _open takes from the palette block: the bands
\* raw[0::3] + raw[1::3] + raw[2::3], as the colours they stand for
PaletteOpened(file) ==
    LET raw == Read(file.data, 0, 3 * PaletteColors)
    IN  [i \in 1..PaletteColors |->
            <<raw[3 * (i - 1) + 1], raw[3 * (i - 1) + 2], raw[3 * (i - 1) + 3]>>]

\* the sub-image descriptors as load_8bit_sti reads them: after the three
\* bytes of each of the number_of_palette_colors colours it read
DescriptorsRead(file) ==
    LET header_8bit == Sti8BitHeaderFromBytes(file.header.format_specific_header)
    IN  [i \in 1..header_8bit.number_of_images |->
            SubImageHeaderFromBytes(
                Read(file.data,
                     3 * header_8bit.number_of_palette_colors
                     + (i - 1) * SubImageHeaderSize,
                     SubImageHeaderSize))]

\* the sub-image descriptors as _open reads them: after the 256 colours
\* it asserts the palette has
DescriptorsOpened(file) ==
    LET n == Sti8BitHeaderFromBytes(file.header.format_specific_header)
                 .number_of_images
    IN  [i \in 1..n |->
            SubImageHeaderFromBytes(
                Read(file.data, 3 * PaletteColors + (i - 1) * SubImageHeaderSize,
                     SubImageHeaderSize))]

\* the tiles of _open: frame i is the `length` bytes at `offset` after the
\* position at which the descriptors end
FrameRangesOpened(file) ==
    LET subimage_headers == DescriptorsOpened(file)
        offset == 3 * PaletteColors + Len(subimage_headers) * SubImageHeaderSize
    IN  [i \in 1..Len(subimage_headers) |->
            [at |-> offset + subimage_headers[i].offset,
             length |-> subimage_headers[i].length]]

\* the reads of load_8bit_sti: frame i is the `length` bytes that follow
\* frame i - 1, the first of them following the descriptors
FrameRangesRead(file) ==
    LET sub_image_headers == DescriptorsRead(file)
        lengths == [i \in 1..Len(sub_image_headers) |->
                       sub_image_headers[i].length]
    IN  [i \in 1..Len(sub_image_headers) |->
            [at |-> 3 * Sti8BitHeaderFromBytes(
                            file.header.format_specific_header)
                            .number_of_palette_colors
                    + Len(sub_image_headers) * SubImageHeaderSize
                    + SumFirst(lengths, i - 1),
             length |-> lengths[i]]]

---------------------------------------------------------------------------
(* The files and the sub-images given to the entry points.                 *)

\* bound of the number of sub-images of a file
MaxFrames == 2

\* the palette of the indexed images
SomePalette == <<<<0, 0, 0>>, <<1, 2, 3>>, <<250, 128, 7>>>>

\* the images of the sub-images: one pixel, and a transparent pixel
\* before a line of two pixels
SubImagePixels ==
    {[width |-> 1, height |-> 1, pixels |-> <<1>>],
     [width |-> 2, height |-> 2, pixels |-> <<0, 0, 2, 1>>]}

\* the offsets of the sub-images: one and two bytes wide, and one wider
\* than its field
SubImageOffsets == {<<0, 0>>, <<1, 2>>, <<300, 65535>>, <<70000, 0>>}

\* the tile metadata of the sub-images: none, records that between them
\* set and clear every field and every flag, and one with a field wider
\* than its byte
SubImageAuxData ==
    {NoAuxData,
     [has |-> TRUE, wall_orientation |-> 0, number_of_tiles |-> 1,
      tile_location_index |-> 2, current_frame |-> 0, number_of_frames |-> 2,
      flags |-> {}],
     [has |-> TRUE, wall_orientation |-> 255, number_of_tiles |-> 3,
      tile_location_index |-> 513, current_frame |-> 1, number_of_frames |-> 0,
      flags |-> {"FULL_TILE", "DYNAMIC_TILE", "USES_LAND_Z"}],
     [has |-> TRUE, wall_orientation |-> 4, number_of_tiles |-> 0,
      tile_location_index |-> 65535, current_frame |-> 7,
      number_of_frames |-> 8,
      flags |-> {"ANIMATED_TILE", "INTERACTIVE_TILE", "IGNORES_HEIGHT"}],
     [has |-> TRUE, wall_orientation |-> 256, number_of_tiles |-> 0,
      tile_location_index |-> 0, current_frame |-> 0, number_of_frames |-> 0,
      flags |-> {}]}

SubImages ==
    {[width |-> im.width, height |-> im.height, pixels |-> im.pixels,
      offsets |-> offsets, aux_data |-> aux_data] :
        im \in SubImagePixels, offsets \in SubImageOffsets,
        aux_data \in SubImageAuxData}

\* a palette of n colours, all different
PaletteOf(n) == [i \in 1..n |-> <<i % 256, (7 * i) % 256, 255 - (i % 256)>>]

\* the palettes of the indexed images: fewer than 256 colours, 256 colours
\* and more than 256 colours
Palettes == {SomePalette, PaletteOf(PaletteColors), PaletteOf(PaletteColors + 1)}

\* Images8Bit(images, palette, width, height)
ImagesWithPalette(images, palette) ==
    [images |-> images, palette |-> palette,
     width |-> GenerateBoxes(images).size[1],
     height |-> GenerateBoxes(images).size[2]]

\* Images8Bit(images, palette, width, height) with the palette of three
\* colours
Images8Bit(images) == ImagesWithPalette(images, SomePalette)

\* the flags given to _save_etrle_images
EtrleSaveFlags ==
    {{"INDEXED", "ETRLE", "AUX_OBJECT_DATA"}, {"INDEXED", "ETRLE"}}

\* a true colour image
SomeImage16Bit ==
    [width |-> 2, height |-> 1, pixels |-> <<<<255, 0, 8>>, <<16, 255, 255>>>>]

\* the file of a sub-image of two lines of two pixels, its descriptor
\* changed to declare one line of one pixel
ShrunkFile ==
    LET sub == CHOOSE x \in SubImages :
                   x.width = 2 /\ x.offsets = <<1, 2>> /\ ~x.aux_data.has
        file == Save8BitSti(Images8Bit(<<sub>>)).file
    IN  [file EXCEPT !.data[3 * PaletteColors + 13] = 1,
                     !.data[3 * PaletteColors + 15] = 1]

\* files as the save entry points write them, and the file with more
\* pixels than it declares
SavedFiles ==
    {Save16BitSti(SomeImage16Bit).file, ShrunkFile}
    \cup {Save8BitSti(Images8Bit(<<sub>>)).file :
             sub \in {x \in SubImages :
                         x.offsets = <<1, 2>> /\ AuxFits(x.aux_data)}}
    \cup {SaveEtrleImages(Images8Bit(<<sub>>), flags).file :
             sub \in {x \in SubImages :
                         /\ x.offsets = <<1, 2>> /\ x.width = 1
                         /\ AuxFits(x.aux_data)},
             flags \in EtrleSaveFlags}

\* the identifiers of the files: the magic and another
FileIdentifiers == {"STCI", "STCJ"}

\* the flags of the files: every set of the five flags and of the unused
\* bit 1
FileFlags == SUBSET {0, 1, 2, 3, 4, 5}

---------------------------------------------------------------------------
(* Loading as a state machine: a file with any identifier and any flags    *)
(* is given to one of the three load entry points.                         *)

LdInit ==
    /\ \E file \in SavedFiles, id \in FileIdentifiers, flags \in FileFlags :
          loader = [file |-> [file EXCEPT !.header.file_identifier = id,
                                          !.header.flags = flags],
                    entry |-> "none", result |-> <<>>, pc |-> "file"]
    /\ etrle = EtIdle
    /\ colour = ColIdle
    /\ encoder = EncIdle
    /\ decoder = DecIdle
    /\ saver = SvIdle
    /\ codec = HdIdle
    /\ flagged = FlIdle
    /\ handler = HnIdle
    /\ truecolor = TcIdle
    /\ pixel = PxIdle

\* Image.open of the file: StiImagePlugin._open
LdOpen ==
    /\ loader.pc = "file"
    /\ loader' = [loader EXCEPT !.entry = "_open",
                                !.result = Open(loader.file),
                                !.pc = "loaded"]
    /\ UNCHANGED <<etrle, colour, encoder, decoder, saver, codec, flagged, handler, truecolor, pixel>>

\* load_16bit_sti(file)
Ld16Bit ==
    /\ loader.pc = "file"
    /\ loader' = [loader EXCEPT !.entry = "load_16bit_sti",
                                !.result = Load16BitSti(loader.file),
                                !.pc = "loaded"]
    /\ UNCHANGED <<etrle, colour, encoder, decoder, saver, codec, flagged, handler, truecolor, pixel>>

\* load_8bit_sti(file)
Ld8Bit ==
    /\ loader.pc = "file"
    /\ loader' = [loader EXCEPT !.entry = "load_8bit_sti",
                                !.result = Load8BitSti(loader.file),
                                !.pc = "loaded"]
    /\ UNCHANGED <<etrle, colour, encoder, decoder, saver, codec, flagged, handler, truecolor, pixel>>

LdNext == LdOpen \/ Ld16Bit \/ Ld8Bit

SpecLoad == LdInit /\ [][LdNext]_vars

\* C6: every load entry point fails, returning no image, when the
\* identifier is not 'STCI' or the ZLIB flag is set
C6_LoadRejects ==
    (/\ loader.pc = "loaded"
     /\ \/ loader.file.header.file_identifier # "STCI"
        \/ GetFlag(loader.file.header, "ZLIB"))
    => loader.result.kind # "image"

---------------------------------------------------------------------------
(* Saving and loading as a state machine: sub-images are saved by one of   *)
(* the two indexed save entry points and the file written is loaded by     *)
(* one of the two indexed load entry points.                               *)

SvInit ==
    /\ \E n \in 1..MaxFrames : \E images \in [1..n -> SubImages] :
       \E palette \in Palettes :
          saver = [input |-> ImagesWithPalette(images, palette), flags |-> {},
                   save |-> "none", written |-> SaveRaised("none"),
                   load |-> "none", loaded |-> Raised("none", "none"),
                   pc |-> "new"]
    /\ etrle = EtIdle
    /\ colour = ColIdle
    /\ encoder = EncIdle
    /\ decoder = DecIdle
    /\ loader = LdIdle
    /\ codec = HdIdle
    /\ flagged = FlIdle
    /\ handler = HnIdle
    /\ truecolor = TcIdle
    /\ pixel = PxIdle

\* save_8bit_sti(ja2_images, file)
SvSave8Bit ==
    /\ saver.pc = "new"
    /\ saver' = [saver EXCEPT !.save = "save_8bit_sti",
                              !.written = Save8BitSti(saver.input),
                              !.pc = "saved"]
    /\ UNCHANGED <<etrle, colour, encoder, decoder, loader, codec, flagged, handler, truecolor, pixel>>

\* Image.save(..., save_all=True, flags=flags): _save_etrle_images
SvSaveEtrle ==
    /\ saver.pc = "new"
    /\ \E flags \in EtrleSaveFlags :
          saver' = [saver EXCEPT !.save = "_save_etrle_images",
                                 !.flags = flags,
                                 !.written = SaveEtrleImages(saver.input, flags),
                                 !.pc = "saved"]
    /\ UNCHANGED <<etrle, colour, encoder, decoder, loader, codec, flagged, handler, truecolor, pixel>>

\* Image.save(..., flags=['INDEXED']): _save_indexes_image of the first
\* image
SvSaveIndexes ==
    /\ saver.pc = "new"
    /\ saver' = [saver EXCEPT !.save = "_save_indexes_image",
                              !.flags = {"INDEXED"},
                              !.written = SaveIndexesImage(saver.input,
                                                           {"INDEXED"}, 0),
                              !.pc = "saved"]
    /\ UNCHANGED <<etrle, colour, encoder, decoder, loader, codec, flagged, handler, truecolor, pixel>>

\* load_8bit_sti of the file written
SvLoad8Bit ==
    /\ saver.pc = "saved"
    /\ saver.written.kind = "file"
    /\ saver' = [saver EXCEPT !.load = "load_8bit_sti",
                              !.loaded = Load8BitSti(saver.written.file),
                              !.pc = "loaded"]
    /\ UNCHANGED <<etrle, colour, encoder, decoder, loader, codec, flagged, handler, truecolor, pixel>>

\* Image.open of the file written: StiImagePlugin._open
SvOpen ==
    /\ saver.pc = "saved"
    /\ saver.written.kind = "file"
    /\ saver' = [saver EXCEPT !.load = "_open",
                              !.loaded = Open(saver.written.file),
                              !.pc = "loaded"]
    /\ UNCHANGED <<etrle, colour, encoder, decoder, loader, codec, flagged, handler, truecolor, pixel>>

SvNext == SvSave8Bit \/ SvSaveEtrle \/ SvSaveIndexes \/ SvLoad8Bit \/ SvOpen

SpecSave == SvInit /\ [][SvNext]_vars

\* every sub-image saved carries tile metadata, and the save is one of the
\* two ETRLE saves and was asked to write it
CarriesMetadata ==
    /\ \A i \in 1..Len(saver.input.images) : saver.input.images[i].aux_data.has
    /\ saver.save \in {"save_8bit_sti", "_save_etrle_images"}
    /\ saver.save = "_save_etrle_images" => "AUX_OBJECT_DATA" \in saver.flags

\* C7: whichever entry point saved sub-images that all carry offsets and
\* tile metadata and whichever entry point loaded the file, the load
\* gives, frame by frame in order, the offsets, the five numbers and the
\* six tile flags that were saved
C7_TileMetadataRoundTrip ==
    (saver.pc = "loaded" /\ CarriesMetadata) =>
        /\ saver.loaded.kind = "image"
        /\ Len(saver.loaded.frames) = Len(saver.input.images)
        /\ \A i \in 1..Len(saver.input.images) :
              /\ saver.loaded.frames[i].offsets = saver.input.images[i].offsets
              /\ saver.loaded.frames[i].aux_data = saver.input.images[i].aux_data

---------------------------------------------------------------------------
(* Claims about the errors of a load.                                      *)

\* the header sets both RGB and INDEXED
Contradictory(header) == GetFlag(header, "RGB") /\ GetFlag(header, "INDEXED")

\* the header asks for a feature the load does not have: ZLIB,
\* AUX_OBJECT_DATA with RGB, or INDEXED with AUX_OBJECT_DATA without ETRLE
Unsupported(header) ==
    \/ GetFlag(header, "ZLIB")
    \/ GetFlag(header, "AUX_OBJECT_DATA") /\ GetFlag(header, "RGB")
    \/ /\ GetFlag(header, "INDEXED") /\ GetFlag(header, "AUX_OBJECT_DATA")
       /\ ~GetFlag(header, "ETRLE")

\* the error _open reports for the file with another identifier
WrongIdentifierKind(file) ==
    Open([file EXCEPT !.header.file_identifier = "STCJ"]).kind

\* the error _open reports for the file with the ZLIB flag set
ZlibKind(file) ==
    Open([file EXCEPT !.header.file_identifier = "STCI",
                      !.header.flags = @ \cup {HeaderFlagBit["ZLIB"]}]).kind

\* C18: _open reports a header with both RGB and INDEXED with the error
\* kind of a wrong identifier, and reports a set ZLIB flag, AUX_OBJECT_DATA
\* with RGB, and INDEXED with AUX_OBJECT_DATA without ETRLE with one other
\* kind, so that the type of the error tells the two apart
C18_ErrorKinds ==
    (/\ loader.pc = "loaded" /\ loader.entry = "_open"
     /\ loader.file.header.file_identifier = "STCI")
    => LET header == loader.file.header
       IN  /\ WrongIdentifierKind(loader.file) # "image"
           /\ (Contradictory(header) /\ ~Unsupported(header))
                  => loader.result.kind = WrongIdentifierKind(loader.file)
           /\ (Unsupported(header) /\ ~Contradictory(header))
                  => /\ loader.result.kind \notin
                            {"image", WrongIdentifierKind(loader.file)}
                     /\ loader.result.kind = ZlibKind(loader.file)

---------------------------------------------------------------------------
(* Claims about the palette block and the layout of an indexed file.       *)

\* the colours whose palette a save writes: the shared palette for
\* _save_etrle_images, the palette of the images for the other saves
SavedPalette ==
    IF saver.save = "_save_etrle_images" THEN SharedPalette(saver.input)
    ELSE saver.input.palette

\* the palette block of the file written
PaletteBlock == Read(saver.written.file.data, 0, 3 * PaletteColors)

\* C13: the palette block is three planes of 256 bytes, all R, then all G,
\* then all B: byte k * 256 + i holds channel k of palette entry i, in the
\* file a save writes and in the palette a load makes of it
C13_PalettePlanes ==
    (saver.pc \in {"saved", "loaded"} /\ saver.written.kind = "file") =>
        /\ \A i \in 0..(Min(Len(SavedPalette), PaletteColors) - 1) : \A k \in 0..2 :
              PaletteBlock[k * PaletteColors + i + 1] = SavedPalette[i + 1][k + 1]
        /\ \A i \in 0..(PaletteColors - 1) : \A k \in 0..2 :
              /\ PaletteColorsRead(saver.written.file)[i + 1][k + 1]
                     = PaletteBlock[k * PaletteColors + i + 1]
              /\ PaletteOpened(saver.written.file)[i + 1][k + 1]
                     = PaletteBlock[k * PaletteColors + i + 1]

\* the bytes a save writes after the palette block: the sub-image
\* descriptors, the compressed images and the metadata records of an ETRLE
\* file, the indexes of a file of raw indexes
BodySize ==
    IF saver.save = "_save_indexes_image"
    THEN saver.input.images[1].width * saver.input.images[1].height
    ELSE Len(saver.input.images) * SubImageHeaderSize
         + saver.written.file.header.size_after_compression
         + saver.written.file.header.aux_data_size

\* every offset and every number of the tile metadata supplied has room in
\* the field of the file that holds it
FieldsFit ==
    \A i \in 1..Len(saver.input.images) :
        /\ \A k \in 1..2 : saver.input.images[i].offsets[k] \in 0..65535
        /\ saver.input.images[i].aux_data.has
               => AuxFits(AuxObjectDataOf(saver.input.images[i].aux_data))

\* C14: every indexed save writes a palette block of exactly 256 RGB
\* triples, 768 bytes, whatever palette it is given: a shorter palette is
\* padded and a longer one truncated (save_8bit_sti's refusal of sub-images
\* of which only some carry metadata aside; the offsets and the metadata
\* fit their fields)
C14_PaletteBlockSize ==
    (/\ saver.pc \in {"saved", "loaded"} /\ saver.written.kind # "ValueError"
     /\ FieldsFit) =>
        /\ saver.written.kind = "file"
        /\ Len(saver.written.file.data) = 3 * PaletteColors + BodySize

\* the compressed bytes an ETRLE save makes of frame i
CompressedFrame(i) ==
    IF saver.save = "save_8bit_sti"
    THEN SubImageToBytes(saver.input.images[i])
    ELSE EtrleToBytes(Indexed(saver.input, saver.input.images[i]))

\* the compressed byte counts of the frames
CompressedLengths ==
    [i \in 1..Len(saver.input.images) |-> Len(CompressedFrame(i))]

\* C15: in the file of an ETRLE save of N frames, descriptor i has for
\* offset the sum of the compressed lengths of the frames before it and for
\* length the compressed length of frame i; size_after_compression is the
\* sum of the lengths; and each load reads frame i at the end of the
\* descriptors plus offset i, where exactly the bytes written for frame i
\* are
C15_FrameByteRanges ==
    (/\ saver.pc \in {"saved", "loaded"}
     /\ saver.written.kind = "file"
     /\ saver.save \in {"save_8bit_sti", "_save_etrle_images"})
    => LET file == saver.written.file
           n == Len(saver.input.images)
       IN  /\ Len(DescriptorsRead(file)) = n
           /\ DescriptorsOpened(file) = DescriptorsRead(file)
           /\ file.header.size_after_compression = SumFirst(CompressedLengths, n)
           /\ \A i \in 1..n :
                 /\ DescriptorsRead(file)[i].offset
                        = SumFirst(CompressedLengths, i - 1)
                 /\ DescriptorsRead(file)[i].length = CompressedLengths[i]
                 /\ FrameRangesOpened(file)[i] = FrameRangesRead(file)[i]
                 /\ Read(file.data, FrameRangesOpened(file)[i].at,
                         FrameRangesOpened(file)[i].length) = CompressedFrame(i)

\* the metadata records the frames call for: one per frame when metadata
\* was supplied for at least one frame, all zero for a frame without, and
\* none when it was supplied for no frame
RecordsCalledFor ==
    IF \E i \in 1..Len(saver.input.images) : saver.input.images[i].aux_data.has
    THEN Join([i \in 1..Len(saver.input.images) |->
                  AuxObjectDataBytes(
                      IF saver.input.images[i].aux_data.has
                      THEN AuxObjectDataOf(saver.input.images[i].aux_data)
                      ELSE DefaultAuxObjectData)])
    ELSE <<>>

\* C17: an ETRLE save of N frames writes, immediately after the compressed
\* images, N 16-byte metadata records in frame order when metadata was
\* supplied for at least one frame, all zero for the frames without, and
\* no record when it was supplied for no frame (the offsets and the
\* metadata fit their fields)
C17_MetadataRecords ==
    (/\ saver.pc \in {"saved", "loaded"} /\ FieldsFit
     /\ saver.save \in {"save_8bit_sti", "_save_etrle_images"})
    => LET data == saver.written.file.data
           n == Len(saver.input.images)
           payload_end == Len(data) - Len(RecordsCalledFor)
       IN  /\ saver.written.kind = "file"
           /\ saver.written.file.header.aux_data_size = Len(RecordsCalledFor)
           /\ payload_end >= Len(CompressedFrame(n))
           /\ DropFirst(data, payload_end) = RecordsCalledFor
           /\ SubSeq(data, payload_end - Len(CompressedFrame(n)) + 1, payload_end)
                  = CompressedFrame(n)

---------------------------------------------------------------------------
(* Canvas composition as a state machine: an indexed ETRLE file whose      *)
(* sub-image descriptors have any widths and heights is opened.            *)

\* bound of the number of descriptors of the file
MaxDescriptors == 3

\* the widths and the heights of the descriptors: 0, small sizes and the
\* greatest 16-bit size
DescriptorWidths == {0, 1, 2, 65535}

DescriptorHeights == {0, 1, 3}

\* the sizes the header declares
DeclaredSizes == {<<1, 1>>, <<7, 9>>}

\* an indexed ETRLE file with the given descriptor sizes and no pixel data
CanvasFile(sizes, declared) ==
    LET n == Len(sizes)
        indexed_header ==
            Sti8BitHeaderBytes(
                [number_of_palette_colors |-> PaletteColors,
                 number_of_images |-> n, red_color_depth |-> 8,
                 green_color_depth |-> 8, blue_color_depth |-> 8])
    IN  [header |->
            [file_identifier |-> "STCI", initial_size |-> 0,
             size_after_compression |-> 0, transparent_color |-> 0,
             flags |-> {HeaderFlagBit["INDEXED"], HeaderFlagBit["ETRLE"]},
             height |-> declared[2], width |-> declared[1],
             format_specific_header |-> indexed_header,
             color_depth |-> 8, aux_data_size |-> 0],
         data |-> Repeat(0, 3 * PaletteColors)
                  \o Join([i \in 1..n |->
                      SubImageHeaderBytes(
                          [offset |-> 0, length |-> 0, offset_x |-> 0,
                           offset_y |-> 0, height |-> sizes[i][2],
                           width |-> sizes[i][1]])])]

CvInit ==
    /\ \E n \in 1..MaxDescriptors :
       \E sizes \in [1..n -> DescriptorWidths \X DescriptorHeights],
          declared \in DeclaredSizes :
          loader = [file |-> CanvasFile(sizes, declared), entry |-> "none",
                    result |-> <<>>, pc |-> "file"]
    /\ etrle = EtIdle
    /\ colour = ColIdle
    /\ encoder = EncIdle
    /\ decoder = DecIdle
    /\ saver = SvIdle
    /\ codec = HdIdle
    /\ flagged = FlIdle
    /\ handler = HnIdle
    /\ truecolor = TcIdle
    /\ pixel = PxIdle

CvNext == LdOpen

SpecCanvas == CvInit /\ [][CvNext]_vars

\* the left edge of box i when every sub-image is followed by one column
RECURSIVE LeftEdge(_, _)
LeftEdge(frames, i) ==
    IF i = 1 THEN 0 ELSE LeftEdge(frames, i - 1) + frames[i - 1].width + 1

\* C16: opening sub-images of any widths and heights places box i at top 0
\* and left x_i, with x_1 = 0 and x_(i+1) = x_i + w_i + 1, and makes the
\* image size (sum of the widths + n - 1, greatest height), whatever size
\* the header declares
C16_CanvasComposition ==
    (loader.pc = "loaded" /\ loader.entry = "_open") =>
        LET frames == loader.result.frames
            n == Len(frames)
        IN  /\ loader.result.kind = "image"
            /\ n >= 1
            /\ Len(loader.result.boxes) = n
            /\ \A i \in 1..n :
                  loader.result.boxes[i]
                      = <<LeftEdge(frames, i), 0,
                          LeftEdge(frames, i) + frames[i].width,
                          frames[i].height>>
            /\ loader.result.size[1] = LeftEdge(frames, n) + frames[n].width
            /\ \E i \in 1..n : loader.result.size[2] = frames[i].height
            /\ \A i \in 1..n : loader.result.size[2] >= frames[i].height

---------------------------------------------------------------------------
(* The header classes on their own: a header built from field values is    *)
(* turned into bytes and read back, and a buffer is read as a header and   *)
(* turned into bytes again.                                                *)

\* values of a field of one, two and four bytes; a four-byte field that is
\* kept as a number stays below 2^31
ByteValues == {0, 1, 255}
ShortValues == {0, 258, 65535}
LongValues == {0, 16909060, 2147483647}
LongMasks == {{}, Field(5, 11), Field(32, 0)}
ByteFlags == {{}, {0, 2}, Field(8, 0)}

\* b'STCI', b'WRST'
IdentifierStrings == {<<83, 84, 67, 73>>, <<87, 82, 83, 84>>}

\* 20 zero bytes, b'c' + 18 * b'\x12' + b'd'
FormatHeaderStrings ==
    {Repeat(0, FormatHeaderSize),
     <<99>> \o Repeat(18, FormatHeaderSize - 2) \o <<100>>}

\* the headers of a class whose fields take the values above
HeaderValues(layout) ==
    CASE layout = "StiHeader" ->
            [file_identifier : IdentifierStrings, initial_size : LongValues,
             size_after_compression : LongValues,
             transparent_color : LongValues, flags : LongMasks,
             height : ShortValues, width : ShortValues,
             format_specific_header : FormatHeaderStrings,
             color_depth : ByteValues, aux_data_size : LongValues]
      [] layout = "Sti16BitHeader" ->
            [red_color_mask : LongMasks, green_color_mask : LongMasks,
             blue_color_mask : LongMasks, alpha_channel_mask : LongMasks,
             red_color_depth : ByteValues, green_color_depth : ByteValues,
             blue_color_depth : ByteValues, alpha_channel_depth : ByteValues]
      [] layout = "Sti8BitHeader" ->
            [number_of_palette_colors : LongValues,
             number_of_images : ShortValues, red_color_depth : ByteValues,
             green_color_depth : ByteValues, blue_color_depth : ByteValues]
      [] layout = "StiSubImageHeader" ->
            [offset : LongValues, length : LongValues,
             offset_x : ShortValues, offset_y : ShortValues,
             height : ShortValues, width : ShortValues]
      [] layout = "AuxObjectData" ->
            [wall_orientation : ByteValues, number_of_tiles : ByteValues,
             tile_location_index : ShortValues, current_frame : ByteValues,
             number_of_frames : ByteValues, flags : ByteFlags]

\* the positions (from 1) of the last byte of every four-byte field that is
\* kept as a number
LongTops(layout) ==
    CASE layout = "StiHeader" -> {8, 12, 16, 52}
      [] layout = "Sti8BitHeader" -> {4}
      [] layout = "StiSubImageHeader" -> {4, 8}
      [] OTHER -> {}

\* buffers of n bytes: one value everywhere, a ramp, and every single
\* position set alone
Buffers(layout, n) ==
    {Repeat(0, n), Repeat(127, n), [i \in 1..n |-> (7 * i) % 128]}
    \cup {[i \in 1..n |->
             IF i # k THEN 0 ELSE IF k \in LongTops(layout) THEN 127 ELSE 255] :
          k \in 1..n}

HdInit ==
    /\ \E layout \in HeaderLayouts :
          \/ \E fields \in HeaderValues(layout) :
                codec = [layout |-> layout, from |-> "fields",
                         fields |-> fields, bytes |-> <<>>,
                         decoded |-> [ok |-> TRUE, fields |-> <<>>],
                         again |-> <<>>, pc |-> "fields"]
          \/ \E n \in {GetSize(layout) - 1, GetSize(layout)} :
             \E buffer \in Buffers(layout, n) :
                codec = [layout |-> layout, from |-> "buffer",
                         fields |-> <<>>, bytes |-> buffer,
                         decoded |-> [ok |-> TRUE, fields |-> <<>>],
                         again |-> <<>>, pc |-> "buffer"]
    /\ etrle = EtIdle
    /\ colour = ColIdle
    /\ encoder = EncIdle
    /\ decoder = DecIdle
    /\ loader = LdIdle
    /\ saver = SvIdle
    /\ flagged = FlIdle
    /\ handler = HnIdle
    /\ truecolor = TcIdle
    /\ pixel = PxIdle

\* bytes(header) of the header built from field values
HdEncode ==
    /\ codec.pc = "fields"
    /\ codec' = [codec EXCEPT !.bytes = HeaderBytes(codec.layout, codec.fields),
                              !.pc = "encoded"]
    /\ UNCHANGED <<etrle, colour, encoder, decoder, loader, saver, flagged, handler, truecolor, pixel>>

\* cls.from_bytes of the bytes
HdDecode ==
    /\ codec.pc \in {"encoded", "buffer"}
    /\ LET header == HeaderFromBytes(codec.layout, codec.bytes)
       IN  codec' = [codec EXCEPT !.decoded = header,
                                  !.pc = IF header.ok THEN "decoded"
                                         ELSE "truncated"]
    /\ UNCHANGED <<etrle, colour, encoder, decoder, loader, saver, flagged, handler, truecolor, pixel>>

\* bytes(header) of the header that from_bytes returned
HdAgain ==
    /\ codec.pc = "decoded"
    /\ codec' = [codec EXCEPT
                    !.again = HeaderBytes(codec.layout, codec.decoded.fields),
                    !.pc = "again"]
    /\ UNCHANGED <<etrle, colour, encoder, decoder, loader, saver, flagged, handler, truecolor, pixel>>

HdNext == HdEncode \/ HdDecode \/ HdAgain

SpecHeader == HdInit /\ [][HdNext]_vars

\* C19: for each of the five header classes and all field values that fit
\* their widths, from_bytes of the bytes of a header returns the same value
\* for every named field.
C19_HeaderRoundTrip ==
    (codec.from = "fields" /\ codec.pc \in {"decoded", "again", "truncated"})
    => /\ codec.decoded.ok
       /\ codec.decoded.fields = codec.fields

\* a StiHeader whose fields of two bytes or more are not all one byte came
\* back from its bytes
C19_Witness ==
    /\ codec.from = "fields" /\ codec.pc = "decoded"
    /\ codec.layout = "StiHeader"
    /\ codec.fields.height = 258 /\ codec.fields.width = 65535
    /\ codec.fields.initial_size = 16909060
    /\ codec.fields.flags = Field(5, 11)
    /\ codec.fields.file_identifier = <<87, 82, 83, 84>>
    /\ Len(codec.bytes) = StiHeaderSize
    /\ codec.decoded.fields = codec.fields

\* C20: for every header class and every buffer of exactly the class's
\* size, from_bytes succeeds and the bytes of the header read equal the
\* buffer, whatever the bytes of the buffer are and also for the classes
\* with padding (StiHeader, Sti8BitHeader, AuxObjectData).
C20_BufferRoundTrip ==
    (codec.from = "buffer" /\ Len(codec.bytes) = GetSize(codec.layout))
    => /\ codec.pc # "truncated"
       /\ codec.pc = "again" => codec.again = codec.bytes

---------------------------------------------------------------------------
(* The flags of a StiHeader set and cleared by name, from flags = 0.       *)

\* StiHeader(flags=0) with every other field 0, and the header of the
\* tests with its flags 0
FlagHeaders ==
    {[file_identifier |-> "STCI", initial_size |-> 0,
      size_after_compression |-> 0, transparent_color |-> 0, flags |-> {},
      height |-> 0, width |-> 0,
      format_specific_header |-> Repeat(0, FormatHeaderSize),
      color_depth |-> 0, aux_data_size |-> 0],
     [file_identifier |-> "WRST", initial_size |-> 123112,
      size_after_compression |-> 3213, transparent_color |-> 31,
      flags |-> {}, height |-> 12, width |-> 11,
      format_specific_header |->
          <<99>> \o Repeat(18, FormatHeaderSize - 2) \o <<100>>,
      color_depth |-> 22, aux_data_size |-> 9]}

FlInit ==
    /\ \E header \in FlagHeaders :
          flagged = [header |-> header, before |-> header, names |-> {},
                     name |-> "none", value |-> FALSE, pc |-> "new"]
    /\ etrle = EtIdle
    /\ colour = ColIdle
    /\ encoder = EncIdle
    /\ decoder = DecIdle
    /\ loader = LdIdle
    /\ saver = SvIdle
    /\ codec = HdIdle
    /\ handler = HnIdle
    /\ truecolor = TcIdle
    /\ pixel = PxIdle

\* header.set_flag('flags', name, value)
FlSetFlag ==
    /\ flagged.pc \in {"new", "set"}
    /\ \E name \in DOMAIN HeaderFlagBit, value \in BOOLEAN :
          flagged' = [header |-> SetFlag(flagged.header, name, value),
                      before |-> flagged.header,
                      names |-> IF value THEN flagged.names \cup {name}
                                ELSE flagged.names \ {name},
                      name |-> name, value |-> value, pc |-> "set"]
    /\ UNCHANGED <<etrle, colour, encoder, decoder, loader, saver, codec, handler, truecolor, pixel>>

FlNext == FlSetFlag

SpecFlags == FlInit /\ [][FlNext]_vars

\* the bit of each name as the format documents it
DocumentedBit ==
    ("AUX_OBJECT_DATA" :> 0) @@ ("RGB" :> 2) @@ ("INDEXED" :> 3)
    @@ ("ZLIB" :> 4) @@ ("ETRLE" :> 5)

\* the sum of 1 << bit over a set of names
RECURSIVE SumOfBits(_)
SumOfBits(names) ==
    IF names = {} THEN 0
    ELSE LET name == CHOOSE n \in names : TRUE
         IN  Pow2(DocumentedBit[name]) + SumOfBits(names \ {name})

\* C21: from flags = 0, after any sequence of set_flag calls the flags
\* integer is the sum of 1 << bit over the names currently true, with
\* AUX_OBJECT_DATA 0, RGB 2, INDEXED 3, ZLIB 4, ETRLE 5; a call changes only
\* the bit of its name and no other field of the header.
C21_SetFlag ==
    flagged.pc = "set" =>
        /\ Value(flagged.header.flags) = SumOfBits(flagged.names)
        /\ flagged.header.flags \ {DocumentedBit[flagged.name]}
               = flagged.before.flags \ {DocumentedBit[flagged.name]}
        /\ (DocumentedBit[flagged.name] \in flagged.header.flags)
               <=> flagged.value
        /\ [flagged.header EXCEPT !.flags = {}]
               = [flagged.before EXCEPT !.flags = {}]

\* RGB is cleared in a header whose flags were 44 and are 40 after it
C21_Witness ==
    /\ flagged.pc = "set"
    /\ flagged.name = "RGB" /\ ~flagged.value
    /\ Value(flagged.before.flags) = 44
    /\ Value(flagged.header.flags) = 40
    /\ flagged.names = {"INDEXED", "ETRLE"}
    /\ flagged.header.width = 11

---------------------------------------------------------------------------
(* The save handlers as a state machine: a handler is called once with an  *)
(* image, maybe an appended image, and an encoderinfo.                     *)

\* a palette of 256 colours: PixelColor of every index but the last, which
\* is the transparent colour
HandlerPalette ==
    [i \in 1..PaletteColors |->
        IF i < PaletteColors THEN SubSeq(PixelColor(i - 1), 1, 3)
        ELSE <<0, 0, 0>>]

\* the width of the narrowest image whose line of three bytes a pixel does
\* not fit in the default budget of encode(): (16384 // 3) + 1
WideWidth == 5462

\* the images: opaque ones of each mode, one with a semi-transparent pixel,
\* one with a transparent pixel, ones with an offset above 65535, one of
\* 256 colours, none of them the transparent colour of the palette, and
\* one line of WideWidth pixels
HandlerSubImages ==
    {[mode |-> "RGB", width |-> 1, height |-> 1, pixels |-> <<1>>,
      alpha |-> <<255>>, offsets |-> <<0, 0>>, aux_data |-> NoAuxData],
     [mode |-> "P", width |-> 2, height |-> 1, pixels |-> <<255, 4>>,
      alpha |-> <<255, 255>>, offsets |-> <<3, 65535>>,
      aux_data |-> [has |-> TRUE, wall_orientation |-> 4,
                    number_of_tiles |-> 0, tile_location_index |-> 513,
                    current_frame |-> 7, number_of_frames |-> 8,
                    flags |-> {"ANIMATED_TILE"}]],
     [mode |-> "RGBA", width |-> 2, height |-> 1, pixels |-> <<1, 2>>,
      alpha |-> <<128, 255>>, offsets |-> <<0, 0>>, aux_data |-> NoAuxData],
     [mode |-> "RGBA", width |-> 1, height |-> 1, pixels |-> <<3>>,
      alpha |-> <<0>>, offsets |-> <<0, 0>>, aux_data |-> NoAuxData],
     [mode |-> "P", width |-> 1, height |-> 1, pixels |-> <<1>>,
      alpha |-> <<255>>, offsets |-> <<70000, 0>>, aux_data |-> NoAuxData],
     [mode |-> "P", width |-> 1, height |-> 1, pixels |-> <<2>>,
      alpha |-> <<255>>, offsets |-> <<0, 65536>>, aux_data |-> NoAuxData],
     [mode |-> "RGB", width |-> 16, height |-> 16,
      pixels |-> [k \in 1..PaletteColors |-> k - 1],
      alpha |-> [k \in 1..PaletteColors |-> 255], offsets |-> <<0, 0>>,
      aux_data |-> NoAuxData],
     [mode |-> "RGB", width |-> WideWidth, height |-> 1,
      pixels |-> [k \in 1..WideWidth |-> 1],
      alpha |-> [k \in 1..WideWidth |-> 255], offsets |-> <<0, 0>>,
      aux_data |-> NoAuxData]}

\* append_images: none, or one image
AppendedImages ==
    {<<>>} \cup {<<sub>> : sub \in {s \in HandlerSubImages : s.mode = "P"}}

\* the names given as flags: those of StiHeader and one it does not have
FlagNames == DOMAIN HeaderFlagBit \cup {"UNKNOWN"}

\* the flags lists: every list of up to two names, and lists of three
FlagLists ==
    UNION {[1..n -> FlagNames] : n \in 0..2}
    \cup {<<"INDEXED", "ETRLE", "AUX_OBJECT_DATA">>,
          <<"AUX_OBJECT_DATA", "ETRLE", "INDEXED">>,
          <<"INDEXED", "ETRLE", "ZLIB">>, <<"RGB", "INDEXED", "ETRLE">>,
          <<"ETRLE", "INDEXED", "ETRLE">>, <<"RGB", "ZLIB", "ETRLE">>}

\* encoderinfo['spec']: none, a spec without and one with an alpha mask,
\* a spec whose red mask is wider than its depth, and a spec that the
\* encoder hands to Pillow's raw encoder
SpecsGiven ==
    {[has |-> FALSE, spec |-> <<>>],
     [has |-> TRUE, spec |-> RAWMODE_SPEC["BGR"]],
     [has |-> TRUE, spec |-> RAWMODE_SPEC["BGR;15"]],
     [has |-> TRUE, spec |-> RAWMODE_SPEC["RGBA;4B"]],
     [has |-> TRUE,
      spec |-> <<Field(5, 11), Field(6, 5), Field(5, 0), {}, 4, 6, 5, 0, 16>>]}

\* encoderinfo['transparent']: none, and a palette index
TransparentsGiven ==
    {[has |-> FALSE, index |-> 0], [has |-> TRUE, index |-> 7]}

HnInit ==
    /\ \E img \in HandlerSubImages, append_images \in AppendedImages,
          flags \in FlagLists, has \in BOOLEAN, spec \in SpecsGiven,
          semi_transparent \in {"None", "transparent", "opaque"},
          transparent \in TransparentsGiven :
          /\ ~has => flags = <<>>
          /\ img.width = WideWidth
                 => /\ has /\ "RGB" \in Range(flags)
                    /\ spec.has /\ SpecToRawmode(spec.spec) = "BGR"
                    /\ append_images = <<>>
          /\ handler = [images |-> [images |-> <<img>> \o append_images,
                                    palette |-> HandlerPalette,
                                    width |-> img.width,
                                    height |-> img.height],
                        info |-> [flags |-> [has |-> has, list |-> flags],
                                  spec |-> spec,
                                  semi_transparent |-> semi_transparent,
                                  transparent |-> transparent],
                        entry |-> "none", result |-> SaveRaised("none"),
                        pc |-> "new"]
    /\ etrle = EtIdle
    /\ colour = ColIdle
    /\ encoder = EncIdle
    /\ decoder = DecIdle
    /\ loader = LdIdle
    /\ saver = SvIdle
    /\ codec = HdIdle
    /\ flagged = FlIdle
    /\ truecolor = TcIdle
    /\ pixel = PxIdle

\* Image.save(fd, 'STCI', **encoderinfo)
HnSave ==
    /\ handler.pc = "new"
    /\ handler' = [handler EXCEPT
                      !.entry = "_save_handler",
                      !.result = SaveHandler(handler.images, handler.info),
                      !.pc = "saved"]
    /\ UNCHANGED <<etrle, colour, encoder, decoder, loader, saver, codec, flagged, truecolor, pixel>>

\* Image.save(fd, 'STCI', save_all=True, **encoderinfo)
HnSaveAll ==
    /\ handler.pc = "new"
    /\ handler' = [handler EXCEPT
                      !.entry = "_save_all_handler",
                      !.result = SaveAllHandler(handler.images, handler.info),
                      !.pc = "saved"]
    /\ UNCHANGED <<etrle, colour, encoder, decoder, loader, saver, codec, flagged, truecolor, pixel>>

HnNext == HnSave \/ HnSaveAll

SpecHandler == HnInit /\ [][HnNext]_vars

\* the flags requested of a handler: the list given, or the handler's
\* default
FlagsRequested ==
    IF handler.info.flags.has THEN Range(handler.info.flags.list)
    ELSE IF handler.entry = "_save_handler" THEN {"RGB"}
    ELSE {"INDEXED", "ETRLE"}

\* C22: for every flags list given to _save_handler or _save_all_handler,
\* with or without appended images, either the save fails with no header
\* written, or the header written has exactly one of RGB and INDEXED, has
\* ZLIB clear and has exactly the bits of the flags requested.
C22_SavedFlags ==
    handler.pc = "saved" =>
        \/ handler.result.kind # "file" /\ handler.result.file.header = <<>>
        \/ /\ handler.result.kind = "file"
           /\ (2 \in handler.result.file.header.flags)
                  # (3 \in handler.result.file.header.flags)
           /\ 4 \notin handler.result.file.header.flags
           /\ FlagsRequested \subseteq DOMAIN DocumentedBit
           /\ handler.result.file.header.flags
                  = {DocumentedBit[name] : name \in FlagsRequested}

\* _save_all_handler with an appended image wrote a header with INDEXED,
\* ETRLE and AUX_OBJECT_DATA, given in another order
C22_Witness ==
    /\ handler.pc = "saved" /\ handler.entry = "_save_all_handler"
    /\ Len(handler.images.images) = 2
    /\ handler.info.flags.list = <<"AUX_OBJECT_DATA", "ETRLE", "INDEXED">>
    /\ handler.result.kind = "file"
    /\ handler.result.file.header.flags = {0, 3, 5}

\* C23: when a save fails on invalid input (an invalid colour spec, an
\* integer that does not fit its header field such as a sub-image offset
\* above 65535, an out-of-range component, a semi-transparent pixel with
\* no policy chosen), no byte has been written to the destination.
C23_NothingWrittenOnFailure ==
    (handler.pc = "saved" /\ handler.result.kind # "file")
    => /\ handler.result.file.header = <<>>
       /\ handler.result.file.data = <<>>

---------------------------------------------------------------------------
(* Claims about the steps made after a decoder or an encoder has finished. *)

\* C24: over any sequence of decode steps of one decoder, the decode
\* primitive is run and the pixels are given to set_as_raw at most once: a
\* step made after the target byte count was reached does not run it again
C24_DecodedOnce == decoder.runs <= 1

\* C25: when a step of the "colors" or of the "etrle" encoder returns, the
\* saved cursor is at the start of a line: self.x is None or the first
\* pixel, so no line is partly encoded between two steps (the "indexes"
\* encoder may stop at any pixel)
C25_RowBoundaries ==
    (encoder.pc \in {"more", "done"} /\ encoder.do \in {"colors", "etrle"})
    => encoder.x \in {None, 0}

---------------------------------------------------------------------------
(* True colour files as a state machine: an image is saved by              *)
(* save_16bit_sti, or a file with the header that save_16bit_sti writes    *)
(* and any 16-bit pixels is loaded by load_16bit_sti.                      *)

\* the components of the pixels saved
SavedComponents == {0, 4, 8, 131, 255}

\* the 16-bit pixels of the files loaded: each channel alone, full and with
\* its lowest bit, and pixels with every channel or the top bits set
LoadedShorts == {0, 1, 31, 32, 2016, 2048, 33808, 63488, 65535}

\* the images saved: one colour over the whole image, and an image of two
\* colours
TrueColorImages ==
    {[width |-> w, height |-> h,
      pixels |-> [k \in 1..(w * h) |-> <<r, g, b>>]] :
         w \in 1..2, h \in 1..2,
         r \in SavedComponents, g \in SavedComponents, b \in SavedComponents}
    \cup {SomeImage16Bit}

\* the files loaded: two pixels after the header of a saved 2x1 image
TrueColorFiles ==
    {[Save16BitSti(SomeImage16Bit).file EXCEPT !.data = LE(p, 2) \o LE(q, 2)] :
         p \in LoadedShorts, q \in LoadedShorts}

TcInit ==
    /\ truecolor \in {[TcIdle EXCEPT !.image = image, !.pc = "image"] :
                         image \in TrueColorImages}
                     \cup {[TcIdle EXCEPT !.file = file, !.pc = "file"] :
                              file \in TrueColorFiles}
    /\ etrle = EtIdle
    /\ colour = ColIdle
    /\ encoder = EncIdle
    /\ decoder = DecIdle
    /\ loader = LdIdle
    /\ saver = SvIdle
    /\ codec = HdIdle
    /\ flagged = FlIdle
    /\ handler = HnIdle
    /\ pixel = PxIdle

\* save_16bit_sti(ja2_image, file)
TcSave ==
    /\ truecolor.pc = "image"
    /\ truecolor' = [truecolor EXCEPT !.written = Save16BitSti(truecolor.image),
                                      !.pc = "saved"]
    /\ UNCHANGED <<etrle, colour, encoder, decoder, loader, saver, codec, flagged, handler, pixel>>

\* load_16bit_sti(file)
TcLoad ==
    /\ truecolor.pc = "file"
    /\ truecolor' = [truecolor EXCEPT !.loaded = Load16BitSti(truecolor.file),
                                      !.pc = "loaded"]
    /\ UNCHANGED <<etrle, colour, encoder, decoder, loader, saver, codec, flagged, handler, pixel>>

TcNext == TcSave \/ TcLoad

SpecTruecolor == TcInit /\ [][TcNext]_vars

---------------------------------------------------------------------------
(* Claims about the true colour entry points and the colour codec.         *)

\* the masks and depths of a true colour file's second header, as a spec
DeclaredSpec(file) ==
    LET h == Sti16BitHeaderFromBytes(file.header.format_specific_header)
    IN  <<h.red_color_mask, h.green_color_mask, h.blue_color_mask,
          h.alpha_channel_mask, h.red_color_depth, h.green_color_depth,
          h.blue_color_depth, h.alpha_channel_depth, file.header.color_depth>>

\* C26: for a file that declares the 5-6-5 masks, load_16bit_sti returns
\* for every 16-bit pixel the (r, g, b) that _color_components gives under
\* that spec; the pixel 0xF800 loads as (255, 0, 0)
C26_LoadAgreesWithCodec ==
    (truecolor.pc = "loaded" /\ DeclaredSpec(truecolor.file) = OFFICIAL_RGB_SPEC)
    => /\ truecolor.loaded.kind = "image"
       /\ Len(truecolor.loaded.pixels) = 2
       /\ \A k \in 1..2 :
             LET short == PixelOfBytes(Read(truecolor.file.data, 2 * (k - 1), 2))
             IN  /\ truecolor.loaded.pixels[k]
                        = SubSeq(ColorComponents(short, OFFICIAL_RGB_SPEC), 1, 3)
                 /\ Value(short) = 63488
                        => truecolor.loaded.pixels[k] = <<255, 0, 0>>

\* C27: save_16bit_sti writes for every pixel (r, g, b) the two bytes that
\* _color_bytes gives under the 5-6-5 spec, declares that spec in the
\* second header, and sets both sizes of the header to width * height * 2
C27_SaveAgreesWithCodec ==
    truecolor.pc = "saved" =>
        LET image == truecolor.image
            file == truecolor.written.file
        IN  /\ truecolor.written.kind = "file"
            /\ DeclaredSpec(file) = OFFICIAL_RGB_SPEC
            /\ file.header.initial_size = image.width * image.height * 2
            /\ file.header.size_after_compression
                   = image.width * image.height * 2
            /\ Len(file.data) = image.width * image.height * 2
            /\ \A k \in 1..(image.width * image.height) :
                  Read(file.data, 2 * (k - 1), 2)
                      = ColorBytes(image.pixels[k] \o <<255>>,
                                   OFFICIAL_RGB_SPEC).bytes

---------------------------------------------------------------------------
(* One raw pixel value packed to bytes by _color_bytes and read back by    *)
(* the Python conversion of StiImageDecoder.decode.                        *)

\* the total depths of the pixels
PixelDepths == {8, 16, 24, 32, 40, 48}

\* the bits of the raw values: the ends of each of the four bytes
PixelBits == {0, 7, 8, 15, 16, 23, 24, 31}

PxInit ==
    /\ \E depth \in PixelDepths :
       \E color \in SUBSET (PixelBits \cap Field(Min(depth, 32), 0)) :
          pixel = [PxIdle EXCEPT !.depth = depth, !.color = color,
                                 !.pc = "color"]
    /\ etrle = EtIdle
    /\ colour = ColIdle
    /\ encoder = EncIdle
    /\ decoder = DecIdle
    /\ loader = LdIdle
    /\ saver = SvIdle
    /\ codec = HdIdle
    /\ flagged = FlIdle
    /\ handler = HnIdle
    /\ truecolor = TcIdle

\* the byte packing of _color_bytes
PxPack ==
    /\ pixel.pc = "color"
    /\ pixel' = [pixel EXCEPT !.bytes = PackColor(pixel.color, pixel.depth),
                              !.pc = "packed"]
    /\ UNCHANGED <<etrle, colour, encoder, decoder, loader, saver, codec, flagged, handler, truecolor>>

\* the bytes-to-integer step of decode, with bytes_per_pixel = depth // 8
PxUnpack ==
    /\ pixel.pc = "packed"
    /\ pixel' = [pixel EXCEPT
                    !.decoded = UnpackColor(pixel.bytes, pixel.depth \div 8),
                    !.pc = "decoded"]
    /\ UNCHANGED <<etrle, colour, encoder, decoder, loader, saver, codec, flagged, handler, truecolor>>

PxNext == PxPack \/ PxUnpack

SpecPixel == PxInit /\ [][PxNext]_vars

\* C28: for the depths of 8 to 48 bits and every raw value that fits the
\* low min(depth, 32) bits, the packing gives depth / 8 bytes and the
\* decoder reads the same raw value back from them
C28_PackingRoundTrip ==
    /\ pixel.pc \in {"packed", "decoded"} => Len(pixel.bytes) = pixel.depth \div 8
    /\ pixel.pc = "decoded" => pixel.decoded = pixel.color

\* C29: whatever the image and whatever the budgets of at least 1, each of
\* the three encoders reports 'done' after finitely many steps: no step ends
\* without a status or with an error, and every step that reports more data
\* returns at least one byte more of the image's encoding, which is finite,
\* so at most that many steps report more data before one reports 'done'.
\* encode_to_pyfd returns, with 'done', a count that is the number of bytes
\* it wrote
C29_EncodeTerminates ==
    [][/\ encoder'.pc \notin {"raised", "error"}
       /\ (encoder.done = 0 /\ encoder'.pc = "more")
           => /\ Len(encoder'.out) > Len(encoder.out)
              /\ Len(encoder'.out) <= Len(WholeImage(encoder', 1))
       /\ encoder'.pc = "driven"
           => /\ encoder'.errcode = 1
              /\ encoder'.total = Len(encoder'.out)
              /\ encoder'.out = WholeImage(encoder', 1)]_vars

\* C30: once a step of an encoder has reported 'done', every later step on
\* the same encoder returns no bytes and reports 'done' again
C30_DoneAbsorbing ==
    [][encoder.done >= 1
           => encoder'.errcode = 1 /\ encoder'.buffer = <<>>]_vars

============================================================================
